---- MODULE Spec2Model ----
(***************************************************************************)
(* Document tokenization, location-aware chunking and scoped search of     *)
(* aisearch-openai-rag-audio: a state-machine model of                     *)
(*   - document_processing/pdf_processor.py (direct_chunk, OCR adapter),   *)
(*   - enhanced_pdf_processor.py (TokenizedPDFProcessor),                  *)
(*   - document_indexer.py (DocumentIndexer: dual-backend index, search),  *)
(*   - document_processing/indexer.py and tasks.py (the ingestion task).   *)
(* Each component has its own specification over the shared variables; the *)
(* variables of the other components stay at their idle values.            *)
(***************************************************************************)
EXTENDS Integers, Sequences, FiniteSets, TLC

VARIABLES
    \* ---- direct_chunk (pdf_processor.py) ----
    dc_pc,          \* "input" | "returned" | "raised" | "idle"
    dc_text,        \* the text, as the sequence of its lines (text.split('\n'))
    dc_chunk_size,  \* the chunk_size argument
    dc_chunks,      \* the list direct_chunk returned
    \* ---- TokenizedPDFProcessor (enhanced_pdf_processor.py) ----
    tok_cfg,        \* token_chunk_size, token_overlap, max_tokens_per_chunk
    pdf_documents,  \* rows of table pdf_documents, in insertion order
    pdf_tokens,     \* rows of table pdf_tokens, in insertion order
    tok_ret,        \* what the last process_pdf call returned
    tok_created,    \* the chunks _create_token_chunks built in that call
    tok_text_data,  \* the text_data of each page that call extracted
    tok_calls,      \* number of process_pdf calls made
    tok_returns,    \* the file hash and the status of every call made
    \* ---- _extract_with_ocr (pdf_processor.py) ----
    ocr_pc,           \* "start" | "batch" | "as_completed" | "final" |
                      \* "returned" | "raised" | "idle"
    ocr_available,    \* OCR_AVAILABLE
    ocr_pages,        \* what recognition finds on each page, in page order
    ocr_batch_start,  \* batch_start of the running batch
    ocr_pending,      \* futures of the batch as_completed has not yielded
    ocr_page_results, \* page_results: page index -> section
    ocr_all_text,     \* all_text, as the sequence of its page sections
    \* ---- DocumentIndexer (document_indexer.py), analyze_pdf (app.py) ----
    search_client,    \* whether self.search_client was constructed
    remote_index,     \* the documents the remote search service holds
    local_documents,  \* self.local_documents
    local_file,       \* the content of local_documents.json
    idx_calls,        \* number of index_document calls made
    idx_ret,          \* the last call of the indexer and what it returned
    \* ---- document_processing: indexer.py, tasks.py, extract_pdf_text ----
    ing_pc,       \* "ready" | "called" | "idle": the single-call functions
    ing_ret,      \* the last call of such a function and what it returned
    tk_pc,        \* where process_pdf_task stands
    tk_args,      \* its arguments and environment
    tk_doc,       \* the row of the document in table documents
    tk_chunks,    \* len(chunks)
    tk_i,         \* the loop variable i of the batch loop
    tk_indexed,   \* indexed_count
    tk_unlinks,   \* number of os.unlink(file_path) calls made
    tk_result,    \* what the task returned, or the exception it let escape
    tk_runs,      \* number of times a worker started the task for the row
    up_pc,        \* where the upload endpoint process_pdf stands
    \* ---- DocumentIndexer instances sharing local_documents.json ----
    st_file,      \* the content of the shared local_documents.json
    st_indexers,  \* per instance: whether constructed, self.local_documents
    st_calls,     \* number of index_document executions made
    st_returned   \* the executions that returned, in order of return

dcVars == <<dc_pc, dc_text, dc_chunk_size, dc_chunks>>

tokVars == <<tok_cfg, pdf_documents, pdf_tokens, tok_ret, tok_created,
             tok_text_data, tok_calls, tok_returns>>

ocrVars == <<ocr_pc, ocr_available, ocr_pages, ocr_batch_start, ocr_pending,
             ocr_page_results, ocr_all_text>>

idxVars == <<search_client, remote_index, local_documents, local_file,
             idx_calls, idx_ret>>

ingVars == <<ing_pc, ing_ret, tk_pc, tk_args, tk_doc, tk_chunks, tk_i,
             tk_indexed, tk_unlinks, tk_result, tk_runs, up_pc>>

stVars == <<st_file, st_indexers, st_calls, st_returned>>

vars == <<dc_pc, dc_text, dc_chunk_size, dc_chunks,
          tok_cfg, pdf_documents, pdf_tokens, tok_ret, tok_created,
          tok_text_data, tok_calls, tok_returns,
          ocr_pc, ocr_available, ocr_pages, ocr_batch_start, ocr_pending,
          ocr_page_results, ocr_all_text,
          search_client, remote_index, local_documents, local_file,
          idx_calls, idx_ret,
          ing_pc, ing_ret, tk_pc, tk_args, tk_doc, tk_chunks, tk_i,
          tk_indexed, tk_unlinks, tk_result, tk_runs, up_pc,
          st_file, st_indexers, st_calls, st_returned>>

(***************************************************************************)
(* Small helpers for Python list semantics.                                *)
(***************************************************************************)
Min(a, b) == IF a <= b THEN a ELSE b

\* ceil(a / b) for a >= 0, b > 0
CeilDiv(a, b) == (a + b - 1) \div b

\* lines[start_idx:end_idx] with 0 <= start_idx, 0 <= end_idx: a slice end
\* beyond the list is clipped to its length
Slice(s, start_idx, end_idx) == SubSeq(s, start_idx + 1, Min(end_idx, Len(s)))

(***************************************************************************)
(* Bounds of the direct_chunk inputs.                                      *)
(***************************************************************************)
\* texts of 1..MaxLines lines (and the 120-line scenario text)
MaxLines == 20

\* chunk_size ranges over the multiples of 25 up to 25 * MaxChunkUnits
MaxChunkUnits == 120

LineCounts == (1..MaxLines) \cup {120}

ChunkSizes == {25 * k : k \in 1..MaxChunkUnits}

Vocabulary == <<"alpha", "Benefits", "gamma">>

TextPatterns == {"words", "blank", "mixed"}

\* a text of n lines: all lines hold a word, all lines are whitespace, or
\* blank and non-blank lines alternate
TextOf(n, p) ==
    [i \in 1..n |->
        CASE p = "words" -> Vocabulary[(i % 3) + 1]
          [] p = "blank" -> IF i % 2 = 0 THEN "" ELSE " "
          [] OTHER       -> IF i % 2 = 1 THEN "" ELSE Vocabulary[(i % 3) + 1]]

WhitespaceLines == {"", " "}

\* 'not text or not text.strip()': the text holds nothing but whitespace
IsBlankText(lines) == \A i \in 1..Len(lines) : lines[i] \in WhitespaceLines

(***************************************************************************)
(* direct_chunk(text, document_title, chunk_size)                          *)
(***************************************************************************)
LinesPerChunk(chunk_size) == chunk_size \div 50

OverlapLines(chunk_size) == LinesPerChunk(chunk_size) \div 10

\* a variant that forgets the overlap when stepping
StepLinesNoOverlap(chunk_size) == LinesPerChunk(chunk_size)

\* the advance between two chunk starts: lines_per_chunk - overlap_lines
StepLines(chunk_size) == LinesPerChunk(chunk_size) - OverlapLines(chunk_size)

\* a variant whose last window is not clipped to the text
ChunkEndIdxUnclipped(start_idx, chunk_size, total_lines) ==
    start_idx + LinesPerChunk(chunk_size)

\* end_idx = min(start_idx + lines_per_chunk, total_lines)
ChunkEndIdx(start_idx, chunk_size, total_lines) ==
    Min(start_idx + LinesPerChunk(chunk_size), total_lines)

\* a variant that drops the partial last window
ChunkCountFloor(total_lines, chunk_size) ==
    total_lines \div StepLines(chunk_size)

\* chunk_count = (total_lines + lines_per_chunk - overlap_lines - 1)
\*               // (lines_per_chunk - overlap_lines)
ChunkCount(total_lines, chunk_size) ==
    (total_lines + LinesPerChunk(chunk_size) - OverlapLines(chunk_size) - 1)
        \div StepLines(chunk_size)

\* the chunk built in iteration i (0-based) of the loop
MakeChunk(lines, document_title, chunk_size, i) ==
    LET total_lines == Len(lines)
        start_idx   == i * StepLines(chunk_size)
        end_idx     == ChunkEndIdx(start_idx, chunk_size, total_lines)
    IN  [title      |-> [doc |-> document_title, part |-> i + 1,
                         of |-> ChunkCount(total_lines, chunk_size)],
         content    |-> Slice(lines, start_idx, end_idx),
         start_line |-> start_idx + 1,
         end_line   |-> end_idx]

\* the loop 'for i in range(chunk_count)' with its break at
\* start_idx >= total_lines: start_idx grows with i, so the iterations run
\* are those before the first i with i * step >= total_lines
ChunkLoop(lines, document_title, chunk_size) ==
    LET ran == {i \in 0..(ChunkCount(Len(lines), chunk_size) - 1) :
                    i * StepLines(chunk_size) < Len(lines)}
    IN  [k \in 1..Cardinality(ran) |->
            MakeChunk(lines, document_title, chunk_size, k - 1)]

\* direct_chunk: [raised, chunks]. A chunk_size below 50 gives
\* lines_per_chunk = 0 and the division raises ZeroDivisionError.
DirectChunk(lines, document_title, chunk_size) ==
    IF IsBlankText(lines) \/ Len(lines) = 0
    THEN [raised |-> FALSE, chunks |-> <<>>]
    ELSE IF StepLines(chunk_size) = 0
    THEN [raised |-> TRUE, chunks |-> <<>>]
    ELSE [raised |-> FALSE,
          chunks |-> ChunkLoop(lines, document_title, chunk_size)]

(***************************************************************************)
(* TokenizedPDFProcessor. A page is the list of its raw lines, a raw line  *)
(* the list of its characters. The tokenizer (tiktoken cl100k_base) is     *)
(* modelled by the character-level tokenizer: encode yields one token per  *)
(* character, decode joins the characters of a token window back to text.  *)
(* Bounding boxes are left out: no modelled property reads them.           *)
(***************************************************************************)
\* a file has 1..MaxFilePages pages
MaxFilePages == 2

\* process_pdf is called at most MaxProcessCalls times
MaxProcessCalls == 2

PageCatalog ==
    { << <<"a", " ", "b">>, <<" ">>, <<"b", "A">> >>,
      << <<" ", "a", "b", " ">>, <<"a", "b">> >> }

PageSeqs(n) == [1..n -> PageCatalog]

Files == UNION {PageSeqs(n) : n \in 1..MaxFilePages}

FileNames == {"doc.pdf"}

\* the configurations read from TOKEN_CHUNK_SIZE, TOKEN_OVERLAP and
\* MAX_TOKENS_PER_CHUNK (defaults 500, 50, 512), scaled to the small pages
TokenConfigs ==
    { [token_chunk_size |-> 3, token_overlap |-> 1, max_tokens_per_chunk |-> 4],
      [token_chunk_size |-> 4, token_overlap |-> 1, max_tokens_per_chunk |-> 3],
      [token_chunk_size |-> 2, token_overlap |-> 0, max_tokens_per_chunk |-> 2],
      [token_chunk_size |-> 2, token_overlap |-> 2, max_tokens_per_chunk |-> 2],
      [token_chunk_size |-> 2, token_overlap |-> 3, max_tokens_per_chunk |-> 2] }

IsSpace(c) == c \in {" ", "\n"}

Lower(c) == IF c = "A" THEN "a" ELSE c

SetMin(S) == CHOOSE x \in S : \A y \in S : x <= y

SetMax(S) == CHOOSE x \in S : \A y \in S : x >= y

\* str.strip()
Strip(s) ==
    LET idx == {i \in 1..Len(s) : ~IsSpace(s[i])}
    IN  IF idx = {} THEN <<>> ELSE SubSeq(s, SetMin(idx), SetMax(idx))

\* set(text.lower().split()): the set of whitespace-separated words
WordSet(s) ==
    LET IsRun(i, j) ==
            /\ \A k \in i..j : ~IsSpace(s[k])
            /\ (i = 1 \/ IsSpace(s[i - 1]))
            /\ (j = Len(s) \/ IsSpace(s[j + 1]))
    IN  { [k \in 1..(j - i + 1) |-> Lower(s[i + k - 1])] :
            <<i, j>> \in {p \in (1..Len(s)) \X (1..Len(s)) :
                              p[1] <= p[2] /\ IsRun(p[1], p[2])} }

\* _extract_text_with_positions: the loop over the lines of the page, from
\* raw line k on
RECURSIVE ExtractLoop(_, _, _, _, _, _)
ExtractLoop(page, k, char_offset, line_number, lines, full_text) ==
    IF k > Len(page)
    THEN [lines |-> lines, full_text |-> full_text]
    ELSE LET line_text == page[k]
             offset    == char_offset + Len(line_text)
             stripped  == Strip(line_text)
         IN  IF stripped # <<>>
             THEN ExtractLoop(page, k + 1, offset, line_number + 1,
                      Append(lines, [line_number |-> line_number,
                                     text        |-> stripped,
                                     char_start  |-> offset - Len(stripped),
                                     char_end    |-> offset]),
                      full_text \o stripped \o <<"\n">>)
             ELSE ExtractLoop(page, k + 1, offset, line_number, lines, full_text)

\* _extract_text_with_positions(page, page_num): char_offset and
\* line_number start at 0 on every page
ExtractTextWithPositions(page, page_num) ==
    LET r == ExtractLoop(page, 1, 0, 0, <<>>, <<>>)
    IN  [page_number |-> page_num, lines |-> r.lines, full_text |-> r.full_text]

\* tokenizer.encode: one token per character
Encode(text) == [i \in 1..Len(text) |-> [token |-> text[i]]]

\* tokenizer.decode: the characters of the tokens, joined
Decode(tokens) == [i \in 1..Len(tokens) |-> tokens[i].token]

\* _find_chunk_lines: the lines sharing a word with the chunk, in page order
FindChunkLines(chunk_text, lines) ==
    LET chunk_words == WordSet(chunk_text)
    IN  IF chunk_words = {} THEN <<>>
        ELSE SelectSeq(lines, LAMBDA l : WordSet(l.text) \cap chunk_words # {})

\* _generate_token_id: p{page}_c{chunk_index}_{md5(content)[:8]}
GenerateTokenId(page_num, chunk_index, content) ==
    <<page_num, chunk_index, content>>

\* tokens[i:i + token_chunk_size]
TokenWindow(tokens, i, cfg) ==
    Slice(tokens, i, Min(i + cfg.token_chunk_size, Len(tokens)))

\* line_start, line_end, char_start, char_end of a chunk: those of its
\* first and last line, 0 when it has no line
ChunkLineSpan(chunk_lines) ==
    IF chunk_lines = <<>>
    THEN [line_start |-> 0, line_end |-> 0, char_start |-> 0, char_end |-> 0]
    ELSE [line_start |-> chunk_lines[1].line_number,
          line_end   |-> chunk_lines[Len(chunk_lines)].line_number,
          char_start |-> chunk_lines[1].char_start,
          char_end   |-> chunk_lines[Len(chunk_lines)].char_end]

\* the body of the loop of _create_token_chunks for window start i
MakeTokenChunk(tokens, lines, page_num, cfg, i, chunk_index) ==
    LET chunk_tokens == TokenWindow(tokens, i, cfg)
        chunk_text   == Decode(chunk_tokens)
        chunk_lines  == FindChunkLines(chunk_text, lines)
        span         == ChunkLineSpan(chunk_lines)
    IN  [token_id    |-> GenerateTokenId(page_num, chunk_index, chunk_text),
         content     |-> chunk_text,
         token_count |-> Len(chunk_tokens),
         page_number |-> page_num,
         chunk_index |-> chunk_index,
         line_start  |-> span.line_start,
         line_end    |-> span.line_end,
         char_start  |-> span.char_start,
         char_end    |-> span.char_end]

\* for i in range(0, len(tokens), step), step > 0
RECURSIVE TokenLoop(_, _, _, _, _, _, _)
TokenLoop(tokens, lines, page_num, cfg, i, chunk_index, acc) ==
    IF i >= Len(tokens)
    THEN acc
    ELSE TokenLoop(tokens, lines, page_num, cfg,
                   i + (cfg.token_chunk_size - cfg.token_overlap),
                   chunk_index + 1,
                   Append(acc, MakeTokenChunk(tokens, lines, page_num, cfg,
                                              i, chunk_index)))

\* _create_token_chunks: [raised, chunks]. range() raises ValueError on a
\* zero step and is empty on a negative one.
CreateTokenChunks(text_data, page_num, cfg) ==
    LET tokens == Encode(text_data.full_text)
        step   == cfg.token_chunk_size - cfg.token_overlap
    IN  IF step = 0 THEN [raised |-> TRUE, chunks |-> <<>>]
        ELSE IF step < 0 THEN [raised |-> FALSE, chunks |-> <<>>]
        ELSE [raised |-> FALSE,
              chunks |-> TokenLoop(tokens, text_data.lines, page_num, cfg,
                                   0, 0, <<>>)]

\* _calculate_file_hash: md5 of the file's bytes, a function of its content
FileHash(file) == [md5 |-> file]

\* a variant of the lookup that never finds a recorded document
DocumentsByHashNone(docs, file_hash) == <<>>

\* _get_document_by_hash
DocumentsByHash(docs, file_hash) ==
    SelectSeq(docs, LAMBDA d : d.file_hash = file_hash)

\* _store_token_chunk for each chunk of one page, in order: the INSERT
\* fails on a token_id already in the table (token_id TEXT UNIQUE) and
\* every earlier INSERT is already committed
RECURSIVE StoreChunks(_, _, _, _)
StoreChunks(tokens_table, doc_id, chunks, k) ==
    IF k > Len(chunks)
    THEN [table |-> tokens_table, error |-> FALSE]
    ELSE IF \E j \in 1..Len(tokens_table) :
                tokens_table[j].token_id = chunks[k].token_id
    THEN [table |-> tokens_table, error |-> TRUE]
    ELSE StoreChunks(Append(tokens_table,
                            [doc_id |-> doc_id] @@ chunks[k]),
                     doc_id, chunks, k + 1)

\* total_tokens += chunk["token_count"] over the first n chunks
RECURSIVE TokenCountSum(_, _)
TokenCountSum(chunks, n) ==
    IF n = 0 THEN 0 ELSE chunks[n].token_count + TokenCountSum(chunks, n - 1)

\* str(e) of the ValueError range() raises on a zero step
RangeStepError == "range() arg 3 must not be zero"

\* str(e) of the sqlite3.IntegrityError the INSERT raises on a token_id
\* already in pdf_tokens
UniqueTokenIdError == "UNIQUE constraint failed: pdf_tokens.token_id"

\* the loop of process_pdf over the pages, from page page_num on
RECURSIVE PageLoop(_, _, _, _, _, _, _, _, _)
PageLoop(file, cfg, doc_id, page_num, tokens_table, total_tokens, n_chunks, built, extracted) ==
    IF page_num > Len(file)
    THEN [table |-> tokens_table, error |-> FALSE, message |-> "",
          total_tokens |-> total_tokens, chunks_created |-> n_chunks,
          built |-> built, extracted |-> extracted]
    ELSE LET text_data == ExtractTextWithPositions(file[page_num], page_num)
             created   == CreateTokenChunks(text_data, page_num, cfg)
             stored    == StoreChunks(tokens_table, doc_id, created.chunks, 1)
             n_stored  == Len(stored.table) - Len(tokens_table)
             tok_sum   == TokenCountSum(created.chunks, n_stored)
         IN  IF created.raised \/ stored.error
             THEN [table |-> stored.table, error |-> TRUE,
                   message |-> IF created.raised THEN RangeStepError
                               ELSE UniqueTokenIdError,
                   total_tokens |-> total_tokens + tok_sum,
                   chunks_created |-> n_chunks + n_stored,
                   built |-> built \o created.chunks,
                   extracted |-> Append(extracted, text_data)]
             ELSE PageLoop(file, cfg, doc_id, page_num + 1, stored.table,
                           total_tokens + tok_sum, n_chunks + n_stored,
                           built \o created.chunks,
                           Append(extracted, text_data))

TokInit ==
    /\ tok_cfg \in TokenConfigs
    /\ pdf_documents = <<>>
    /\ pdf_tokens = <<>>
    /\ tok_ret = [status |-> "none"]
    /\ tok_created = <<>>
    /\ tok_text_data = <<>>
    /\ tok_calls = 0
    /\ tok_returns = <<>>

TokIdle ==
    /\ tok_cfg = [token_chunk_size |-> 0, token_overlap |-> 0,
                  max_tokens_per_chunk |-> 0]
    /\ pdf_documents = <<>>
    /\ pdf_tokens = <<>>
    /\ tok_ret = [status |-> "idle"]
    /\ tok_created = <<>>
    /\ tok_text_data = <<>>
    /\ tok_calls = 0
    /\ tok_returns = <<>>

\* process_pdf(pdf_path, filename)
ProcessPdf(file, filename) ==
    /\ tok_ret.status # "idle"
    /\ tok_calls < MaxProcessCalls
    /\ tok_calls' = tok_calls + 1
    /\ LET file_hash == FileHash(file)
           existing  == DocumentsByHash(pdf_documents, file_hash)
           doc_id    == Len(pdf_documents) + 1
           docs1     == Append(pdf_documents,
                               [id |-> doc_id, filename |-> filename,
                                file_hash |-> file_hash,
                                total_pages |-> Len(file),
                                total_tokens |-> 0])
           r         == PageLoop(file, tok_cfg, doc_id, 1, pdf_tokens, 0, 0,
                                   <<>>, <<>>)
       IN  IF existing # <<>>
           THEN /\ tok_ret' = [status |-> "exists", doc_id |-> existing[1].id]
                /\ tok_created' = <<>>
                /\ tok_text_data' = <<>>
                /\ UNCHANGED <<pdf_documents, pdf_tokens>>
           ELSE IF r.error
           THEN /\ tok_ret' = [status |-> "error", doc_id |-> doc_id,
                               message |-> r.message]
                /\ tok_created' = r.built
                /\ tok_text_data' = r.extracted
                /\ pdf_documents' = docs1
                /\ pdf_tokens' = r.table
           ELSE /\ tok_ret' = [status |-> "success", doc_id |-> doc_id,
                               total_tokens |-> r.total_tokens,
                               total_pages |-> Len(file),
                               chunks_created |-> r.chunks_created]
                /\ pdf_documents' =
                       [docs1 EXCEPT ![doc_id].total_tokens = r.total_tokens]
                /\ tok_created' = r.built
                /\ tok_text_data' = r.extracted
                /\ pdf_tokens' = r.table
    /\ tok_returns' = Append(tok_returns, [file_hash |-> FileHash(file),
                                           status    |-> tok_ret'.status])
    /\ UNCHANGED tok_cfg

(***************************************************************************)
(* Specification of direct_chunk: the inputs are drawn in Init, the call   *)
(* is one step.                                                            *)
(***************************************************************************)
DcInit ==
    /\ dc_pc = "input"
    /\ \E n \in LineCounts, p \in TextPatterns : dc_text = TextOf(n, p)
    /\ dc_chunk_size \in ChunkSizes
    /\ dc_chunks = <<>>

\* one text of 7 lines chunked with chunk_size 150, next to the token
\* processor
DcFixed ==
    /\ dc_pc = "input"
    /\ dc_text = TextOf(7, "words")
    /\ dc_chunk_size = 150
    /\ dc_chunks = <<>>

DcIdle ==
    /\ dc_pc = "idle"
    /\ dc_text = <<>>
    /\ dc_chunk_size = 0
    /\ dc_chunks = <<>>

DirectChunkCall ==
    /\ dc_pc = "input"
    /\ LET r == DirectChunk(dc_text, "Document", dc_chunk_size)
       IN  /\ dc_pc' = IF r.raised THEN "raised" ELSE "returned"
           /\ dc_chunks' = r.chunks
    /\ UNCHANGED <<dc_text, dc_chunk_size>>

(***************************************************************************)
(* _extract_with_ocr(pdf_path). The text is kept as the sequence of the    *)
(* page sections appended to all_text; a section is the page number of its *)
(* "--- Page n ---" header and its body.                                   *)
(***************************************************************************)
\* a scanned document has 0..MaxOcrPages pages
MaxOcrPages == 12

\* batch_size
BatchSize == 10

\* what pytesseract finds on a page: text, nothing, or it raises
OcrPagePatterns == {"text", "none", "error", "mixed"}

OcrPagesOf(n, p) ==
    [i \in 1..n |->
        CASE p = "mixed" -> IF i % 2 = 1 THEN "none" ELSE "text"
          [] OTHER       -> p]

\* process_page(page_num, image), page_num 0-based: it never raises
ProcessPage(page_num, found) ==
    [page |-> page_num + 1,
     body |-> CASE found = "text"  -> "text"
                [] found = "none"  -> "[No text detected]"
                [] OTHER           -> "[OCR Error]"]

\* page_results.get(i, "[No OCR result]") for the pages lo..hi-1 in order,
\* keeping only the pages with a result when only_present
RECURSIVE SectionsInOrder(_, _, _, _)
SectionsInOrder(page_results, lo, hi, only_present) ==
    IF lo >= hi THEN <<>>
    ELSE (IF lo \in DOMAIN page_results THEN <<page_results[lo]>>
          ELSE IF only_present THEN <<>>
          ELSE <<[page |-> lo + 1, body |-> "[No OCR result]"]>>)
         \o SectionsInOrder(page_results, lo + 1, hi, only_present)

\* what the end of one batch appends to all_text: the loop 'Append results
\* in order' over the batch, then the loop 'Combine results in page order'
\* over range(total_pages), which sits inside the batch loop
BatchSections(page_results, batch_start, batch_end, total_pages) ==
    SectionsInOrder(page_results, batch_start, batch_end, FALSE)
        \o SectionsInOrder(page_results, 0, total_pages, TRUE)

OcrInit ==
    /\ ocr_pc = "start"
    /\ ocr_available \in BOOLEAN
    /\ \E n \in 0..MaxOcrPages, p \in OcrPagePatterns :
           ocr_pages = OcrPagesOf(n, p)
    /\ ocr_batch_start = 0
    /\ ocr_pending = {}
    /\ ocr_page_results = <<>>
    /\ ocr_all_text = <<>>

OcrIdle ==
    /\ ocr_pc = "idle"
    /\ ocr_available = FALSE
    /\ ocr_pages = <<>>
    /\ ocr_batch_start = 0
    /\ ocr_pending = {}
    /\ ocr_page_results = <<>>
    /\ ocr_all_text = <<>>

\* entry: the OCR_AVAILABLE check and convert_from_path
OcrStart ==
    /\ ocr_pc = "start"
    /\ ocr_pc' = IF ocr_available THEN "batch" ELSE "raised"
    /\ UNCHANGED <<ocr_available, ocr_pages, ocr_batch_start, ocr_pending,
                   ocr_page_results, ocr_all_text>>

\* head of 'for batch_start in range(0, total_pages, batch_size)': submit
\* the pages of the batch, or leave the loop
OcrSubmitBatch ==
    /\ ocr_pc = "batch"
    /\ IF ocr_batch_start < Len(ocr_pages)
       THEN /\ ocr_pc' = "as_completed"
            /\ ocr_page_results' = <<>>
            /\ ocr_pending' = ocr_batch_start ..
                   (Min(ocr_batch_start + BatchSize, Len(ocr_pages)) - 1)
       ELSE /\ ocr_pc' = "final"
            /\ UNCHANGED <<ocr_page_results, ocr_pending>>
    /\ UNCHANGED <<ocr_available, ocr_pages, ocr_batch_start, ocr_all_text>>

\* as_completed yields the future of page i: page_results[i] = its result
OcrFutureCompleted(i) ==
    /\ ocr_pc = "as_completed"
    /\ i \in ocr_pending
    /\ ocr_pending' = ocr_pending \ {i}
    /\ ocr_page_results' =
           [j \in (DOMAIN ocr_page_results) \cup {i} |->
               IF j = i THEN ProcessPage(i, ocr_pages[i + 1])
               ELSE ocr_page_results[j]]
    /\ UNCHANGED <<ocr_pc, ocr_available, ocr_pages, ocr_batch_start,
                   ocr_all_text>>

\* the end of the batch: the two appending loops, then the next batch
OcrEndBatch ==
    LET batch_end == Min(ocr_batch_start + BatchSize, Len(ocr_pages))
    IN  /\ ocr_all_text' = ocr_all_text \o
               BatchSections(ocr_page_results, ocr_batch_start, batch_end,
                             Len(ocr_pages))
        /\ ocr_batch_start' = ocr_batch_start + BatchSize
        /\ ocr_pending' = {}
        /\ ocr_pc' = "batch"
        /\ UNCHANGED <<ocr_available, ocr_pages, ocr_page_results>>

\* as_completed is exhausted: every page of the batch has its result
OcrBatchDone ==
    /\ ocr_pc = "as_completed"
    /\ ocr_pending = {}
    /\ OcrEndBatch

\* as_completed(timeout=600) raises TimeoutError with futures outstanding
OcrBatchTimeout ==
    /\ ocr_pc = "as_completed"
    /\ ocr_pending # {}
    /\ OcrEndBatch

\* 'if all_text.strip()': every section holds its header, so the text is
\* empty only when no section was appended
OcrFinish ==
    /\ ocr_pc = "final"
    /\ ocr_pc' = IF ocr_all_text # <<>> THEN "returned" ELSE "raised"
    /\ UNCHANGED <<ocr_available, ocr_pages, ocr_batch_start, ocr_pending,
                   ocr_page_results, ocr_all_text>>

(***************************************************************************)
(* DocumentIndexer: index_document, search_documents, search_in_pdf, and   *)
(* the analyze_pdf handler that dispatches to them. The remote search      *)
(* service is an external collaborator: it stores the documents whose      *)
(* upload it reports as succeeded and answers a search with documents      *)
(* that pass the filter string.                                            *)
(***************************************************************************)
\* index_document is called at most MaxIndexCalls times
MaxIndexCalls == 2

\* Python's None
NoneVal == "<None>"

\* truthiness of an optional string: 'if user_id:'
Truthy(x) == x # NoneVal /\ x # ""

UserIds == {"u1", "u2"}

\* the uploads: the text extract_pdf_text gives for each file
UploadFiles == {"a.pdf", "b.pdf", "scan.pdf"}

ExtractedText(filename) ==
    CASE filename = "a.pdf" -> <<"alpha", "Benefits", "gamma">>
      [] filename = "b.pdf" -> TextOf(58, "words")
      [] OTHER              -> TextOf(2, "blank")

\* Path(filename).stem
Stem(filename) ==
    CASE filename = "a.pdf" -> "a"
      [] filename = "b.pdf" -> "b"
      [] filename = "scan.pdf" -> "scan"
      [] OTHER -> filename

\* str.lower() on the words and names of the model
LowerWord(w) ==
    CASE w = "Benefits" -> "benefits"
      [] w = "ALPHA"    -> "alpha"
      [] OTHER          -> w

Queries == {"benefits", "zeta"}

Tops == {1, 10}

\* create_intelligent_chunks_with_ai: direct_chunk with chunk_size 3000
CreateIntelligentChunks(lines, document_title) ==
    IF IsBlankText(lines) THEN <<>>
    ELSE DirectChunk(lines, document_title, 3000).chunks

\* the documents index_document prepares from the chunks; uuid4 is
\* modelled by a number no earlier call has used
PrepareDocuments(chunks, filename, user_id, call_no) ==
    [i \in 1..Len(chunks) |->
        [chunk_id     |-> <<Stem(filename), i, call_no>>,
         parent_id    |-> Stem(filename),
         title        |-> chunks[i].title,
         chunk        |-> chunks[i].content,
         text_vector  |-> "embedding",
         filename     |-> filename,
         user_id      |-> IF Truthy(user_id) THEN user_id ELSE "anonymous",
         start_line   |-> chunks[i].start_line,
         end_line     |-> chunks[i].end_line,
         chunk_index  |-> i,
         total_chunks |-> Len(chunks)]]

\* local_doc = {k: v for k, v in doc.items() if k != self.embedding_field}
LocalDoc(doc) ==
    [k \in (DOMAIN doc) \ {"text_vector"} |-> doc[k]]

\* the elements of seq at the indexes in S, in order
RECURSIVE SelectIndexes(_, _, _)
SelectIndexes(seq, S, k) ==
    IF k > Len(seq) THEN <<>>
    ELSE (IF k \in S THEN <<seq[k]>> ELSE <<>>) \o SelectIndexes(seq, S, k + 1)

\* a variant of the write fallback that gives up instead of storing
LocalFallbackGiveUp(documents) ==
    [ret |-> FALSE, local |-> local_documents]

\* 'Fallback to local storage': every prepared document is appended
\* without its embedding, the list is saved, True is returned
LocalFallback(documents) ==
    [ret   |-> TRUE,
     local |-> local_documents \o [i \in 1..Len(documents) |->
                                      LocalDoc(documents[i])]]

\* query_lower in content or query_lower in title
MatchesQuery(query, doc) ==
    LET query_lower == LowerWord(query)
    IN  \/ \E i \in 1..Len(doc.chunk) : LowerWord(doc.chunk[i]) = query_lower
        \/ query_lower = LowerWord(doc.title.doc)
        \/ query_lower = "part"

\* a variant of the local filter that forgets the owner
PassesLocalFiltersNoOwner(doc, user_id, filename_filter) ==
    ~(Truthy(filename_filter) /\ doc.filename # filename_filter)

\* the two 'continue' checks of the local loop
PassesLocalFilters(doc, user_id, filename_filter) ==
    /\ ~(Truthy(user_id) /\ doc.user_id # user_id)
    /\ ~(Truthy(filename_filter) /\ doc.filename # filename_filter)

\* a result row of the local path
LocalResultRow(doc) ==
    [chunk_id     |-> doc.chunk_id,
     title        |-> doc.title,
     content      |-> doc.chunk,
     filename     |-> doc.filename,
     start_line   |-> doc.start_line,
     end_line     |-> doc.end_line,
     chunk_index  |-> doc.chunk_index,
     total_chunks |-> doc.total_chunks]

\* seq[:top]
Take(seq, top) == SubSeq(seq, 1, Min(top, Len(seq)))

\* a variant of the local path that answers from the first matching
\* document only
LocalSearchFirstDocument(query, top, user_id, filename_filter) ==
    LET hits == SelectSeq(local_documents,
                    LAMBDA doc : /\ PassesLocalFilters(doc, user_id,
                                                       filename_filter)
                                 /\ MatchesQuery(query, doc))
        own  == SelectSeq(hits, LAMBDA doc : doc.parent_id = hits[1].parent_id)
    IN  Take([i \in 1..Len(own) |-> LocalResultRow(own[i])], top)

\* the local path of search_documents
LocalSearch(query, top, user_id, filename_filter) ==
    LET hits == SelectSeq(local_documents,
                    LAMBDA doc : /\ PassesLocalFilters(doc, user_id,
                                                       filename_filter)
                                 /\ MatchesQuery(query, doc))
    IN  Take([i \in 1..Len(hits) |-> LocalResultRow(hits[i])], top)

\* filter_conditions: the (field, value) equalities joined by ' and ',
\* None when there is none
FilterConditions(user_id, filename_filter) ==
    (IF Truthy(user_id) THEN <<[field |-> "user_id", value |-> user_id]>>
     ELSE <<>>)
    \o (IF Truthy(filename_filter)
        THEN <<[field |-> "filename", value |-> filename_filter]>>
        ELSE <<>>)

\* the remote service evaluating "f1 eq 'v1' and f2 eq 'v2'" on a document
PassesRemoteFilter(doc, conditions) ==
    \A i \in 1..Len(conditions) : doc[conditions[i].field] = conditions[i].value

\* a result row of the remote path: the results are dicts, so the getattr
\* lookups of filename, start_line, end_line, chunk_index and total_chunks
\* give their defaults
RemoteResultRow(doc) ==
    [chunk_id     |-> doc.chunk_id,
     title        |-> doc.title,
     content      |-> doc.chunk,
     filename     |-> "Unknown",
     start_line   |-> 0,
     end_line     |-> 0,
     chunk_index  |-> 0,
     total_chunks |-> 0]

\* the remote hybrid search: the documents passing the filter that the
\* service ranks, at most top of them. ranking "keyword" keeps the keyword
\* matches, ranking "vector" every neighbour the vector query finds.
RemoteSearch(query, top, user_id, filename_filter, ranking) ==
    LET conditions == FilterConditions(user_id, filename_filter)
        hits == SelectSeq(remote_index,
                    LAMBDA doc : /\ PassesRemoteFilter(doc, conditions)
                                 /\ (ranking = "keyword"
                                        => MatchesQuery(query, doc)))
    IN  Take([i \in 1..Len(hits) |-> RemoteResultRow(hits[i])], top)

\* a variant of the read fallback that lets the remote error reach the caller
OnRemoteSearchErrorRaise(query, top, user_id, filename_filter) ==
    [raised |-> TRUE, backend |-> "none", results |-> <<>>]

\* 'except Exception' of search_documents: log, then the local path
OnRemoteSearchError(query, top, user_id, filename_filter) ==
    [raised |-> FALSE, backend |-> "local",
     results |-> LocalSearch(query, top, user_id, filename_filter)]

RemoteOutcomes == {"raise", "keyword", "vector"}

\* search_documents(query, top, user_id, filename_filter); remote is what
\* the remote call does when it is made
SearchDocuments(query, top, user_id, filename_filter, remote) ==
    IF search_client
    THEN IF remote = "raise"
         THEN [remote |-> "raised"]
              @@ OnRemoteSearchError(query, top, user_id, filename_filter)
         ELSE [remote |-> "served", raised |-> FALSE, backend |-> "remote",
               results |-> RemoteSearch(query, top, user_id, filename_filter,
                                        remote)]
    ELSE [remote |-> "not_configured", raised |-> FALSE, backend |-> "local",
          results |-> LocalSearch(query, top, user_id, filename_filter)]

\* search_in_pdf(query, filename, top, user_id)
SearchInPdf(query, filename, top, user_id, remote) ==
    SearchDocuments(query, top, user_id, filename, remote)

\* A search changes none of the stores and its response is the last thing
\* a behaviour observes: every store state, and every response to a search
\* in it, is reached by taking the calls from the states index_document
\* leaves.
IndexerReady == idx_ret.op \in {"none", "index"}

IdxInit ==
    /\ search_client \in BOOLEAN
    /\ remote_index = <<>>
    /\ local_documents = <<>>
    /\ local_file = <<>>
    /\ idx_calls = 0
    /\ idx_ret = [op |-> "none"]

IdxIdle ==
    /\ search_client = FALSE
    /\ remote_index = <<>>
    /\ local_documents = <<>>
    /\ local_file = <<>>
    /\ idx_calls = 0
    /\ idx_ret = [op |-> "idle"]

\* index_document(file_path, filename, user_id); what upload_documents
\* does when it is called: it raises, or it reports the documents at the
\* indexes in succeeded as succeeded
IndexDocument(filename, user_id, raises, succeeded) ==
    /\ IndexerReady
    /\ idx_calls < MaxIndexCalls
    /\ idx_calls' = idx_calls + 1
    /\ LET text      == ExtractedText(filename)
           chunks    == CreateIntelligentChunks(text, filename)
           documents == PrepareDocuments(chunks, filename, user_id,
                                         idx_calls + 1)
           call      == [op |-> "index", filename |-> filename,
                         user_id |-> user_id, documents |-> documents]
       IN  IF IsBlankText(text) \/ chunks = <<>>
           THEN /\ raises /\ succeeded = {}
                /\ idx_ret' = call @@ [ret |-> FALSE, upload |-> "not_called"]
                /\ UNCHANGED <<remote_index, local_documents, local_file>>
           ELSE IF search_client /\ ~raises
           THEN /\ succeeded \subseteq 1..Len(documents)
                /\ remote_index' =
                       remote_index \o SelectIndexes(documents, succeeded, 1)
                /\ idx_ret' = call @@ [ret |-> Cardinality(succeeded) > 0,
                                       upload |-> "returned"]
                /\ UNCHANGED <<local_documents, local_file>>
           ELSE /\ raises /\ succeeded = {}
                /\ LET fb == LocalFallback(documents)
                   IN  /\ local_documents' = fb.local
                       /\ local_file' = fb.local
                       /\ idx_ret' = call @@
                             [ret |-> fb.ret,
                              upload |-> IF search_client THEN "raised"
                                         ELSE "not_called"]
                /\ UNCHANGED remote_index
    /\ UNCHANGED search_client

\* a direct call of search_documents
SearchDocumentsCall(query, top, user_id, filename_filter, remote) ==
    /\ IndexerReady
    /\ ~search_client => remote = "raise"
    /\ idx_ret' = [op |-> "search", mode |-> "direct", query |-> query,
                   top |-> top, user_id |-> user_id,
                   filename_filter |-> filename_filter]
                  @@ SearchDocuments(query, top, user_id, filename_filter,
                                     remote)
    /\ UNCHANGED <<search_client, remote_index, local_documents, local_file,
                   idx_calls>>

\* the search mode analyze_pdf reports for the 'filename' of the request
SearchMode(filename) ==
    IF filename = "user_uploaded" THEN "guarded"
    ELSE IF Truthy(filename) THEN "specific" ELSE "unguarded"

\* result['content'][:500] + '...' when the content is longer than 500;
\* the content is kept as the list of its lines, and no modelled chunk is
\* that long
ContentPreview(content) ==
    IF Len(content) > 500 THEN SubSeq(content, 1, 500) \o <<"...">>
    ELSE content

\* a row of 'results' in the response of analyze_pdf
FormattedRow(result) ==
    [title          |-> result.title,
     content        |-> ContentPreview(result.content),
     chunk_id       |-> result.chunk_id,
     filename       |-> result.filename,
     start_line     |-> result.start_line,
     end_line       |-> result.end_line,
     chunk_index    |-> result.chunk_index,
     total_chunks   |-> result.total_chunks,
     line_reference |-> IF result.start_line > 0
                        THEN <<"Lines", result.start_line, result.end_line>>
                        ELSE <<"Line information not available">>]

\* the JSON body analyze_pdf answers with for the rows search_results
AnalyzeResponse(query, filename, search_results) ==
    IF search_results = <<>>
    THEN [query |-> query, results |-> <<>>,
          message |-> "No matching documents found"]
    ELSE [query |-> query, filename |-> filename,
          search_mode |-> SearchMode(filename),
          results |-> [k \in 1..Len(search_results) |->
                          FormattedRow(search_results[k])],
          total_results |-> Len(search_results)]

\* analyze_pdf for a token carrying user_id and a request body with query
\* and filename: the three-way dispatch to the indexer
AnalyzePdf(query, filename, user_id, remote) ==
    /\ IndexerReady
    /\ ~search_client => remote = "raise"
    /\ LET found ==
            IF filename = "user_uploaded"
            THEN SearchDocuments(query, 10, user_id, NoneVal, remote)
            ELSE IF Truthy(filename)
            THEN SearchInPdf(query, filename, 10, user_id, remote)
            ELSE SearchDocuments(query, 10, NoneVal, NoneVal, remote)
       IN  idx_ret' = [op |-> "search", mode |-> SearchMode(filename),
                       query |-> query, top |-> 10,
                       user_id |-> IF Truthy(filename) THEN user_id
                                   ELSE NoneVal,
                       filename_filter |->
                           IF SearchMode(filename) = "specific"
                           THEN filename ELSE NoneVal,
                       token_user |-> user_id,
                       response |-> AnalyzeResponse(query, filename,
                                                    found.results)]
                      @@ found
    /\ UNCHANGED <<search_client, remote_index, local_documents, local_file,
                   idx_calls>>

(***************************************************************************)
(* document_processing: the embedding generators, extract_pdf_text,        *)
(* DocumentIndexer.index_chunks (indexer.py) and process_pdf_task          *)
(* (tasks.py). The functions that run to completion in one call are one    *)
(* action each, taken from the ready state; the task is modelled step by   *)
(* step.                                                                   *)
(***************************************************************************)
tkVars == <<tk_pc, tk_args, tk_doc, tk_chunks, tk_i, tk_indexed, tk_unlinks,
            tk_result, tk_runs, up_pc>>

\* EMBEDDING_DIM: text-embedding-3-large dimension
EMBEDDING_DIM == 3072

\* the dimension generate_embedding pads its fallback to (ada-002)
AdaDimension == 1536

\* the number of bytes of an md5 digest
DigestSize == 16

EmbeddingTexts == {"", "alpha", "Benefits gamma"}

\* what the embeddings service does: there is no client, the call raises,
\* or it answers
EmbeddingOutcomes == {"no_client", "raise", "answer"}

\* hashlib.md5(text.encode()).digest(): DigestSize bytes fixed by the text
Md5Digest(text) ==
    [i \in 1..DigestSize |-> (Len(text) * 37 + i * 11) % 256]

\* float(b) / 255.0
ByteToFloat(b) == [num |-> b, den |-> 255]

\* while len(embedding) < dim: embedding.extend(embedding)
RECURSIVE ExtendUntil(_, _)
ExtendUntil(embedding, dim) ==
    IF Len(embedding) < dim
    THEN ExtendUntil(embedding \o embedding, dim)
    ELSE embedding

\* a variant of the fallback that forgets the final truncation
FallbackEmbeddingUntruncated(text) ==
    ExtendUntil([i \in 1..DigestSize |-> ByteToFloat(Md5Digest(text)[i])],
                AdaDimension)

\* the hash-based fallback of generate_embedding: the digest bytes as
\* floats, doubled until at least 1536 long, then embedding[:1536]
FallbackEmbedding(text) ==
    Slice(ExtendUntil([i \in 1..DigestSize |->
                           ByteToFloat(Md5Digest(text)[i])],
                      AdaDimension),
          0, AdaDimension)

\* response.data[0].embedding: a vector of the deployment's dimension
ServiceEmbedding(text, dim) ==
    [i \in 1..dim |-> [num |-> Len(text) + i, den |-> 1000]]

\* DocumentIndexer.generate_embedding(text) of document_indexer.py; a
\* missing client raises AttributeError inside the try
GenerateEmbedding(text, outcome, dim) ==
    IF outcome = "answer"
    THEN [raised |-> FALSE, fallback |-> FALSE,
          embedding |-> ServiceEmbedding(text, dim)]
    ELSE [raised |-> FALSE, fallback |-> TRUE,
          embedding |-> FallbackEmbedding(text)]

\* [0.1] * EMBEDDING_DIM
PlaceholderEmbedding == [i \in 1..EMBEDDING_DIM |-> [num |-> 1, den |-> 10]]

\* DocumentIndexer.generate_embeddings(texts) of indexer.py
GenerateEmbeddings(texts, outcome, dim) ==
    IF outcome = "no_client"
    THEN [raised |-> FALSE, fallback |-> TRUE,
          embedding |-> PlaceholderEmbedding]
    ELSE LET text == IF texts # <<>> THEN texts[1] ELSE ""
         IN  IF outcome = "answer"
             THEN [raised |-> FALSE, fallback |-> FALSE,
                   embedding |-> ServiceEmbedding(text, dim)]
             ELSE [raised |-> FALSE, fallback |-> TRUE,
                   embedding |-> PlaceholderEmbedding]

GenerateEmbeddingCall(text, outcome, dim) ==
    /\ ing_pc = "ready"
    /\ outcome # "answer" => dim = AdaDimension
    /\ ing_pc' = "called"
    /\ ing_ret' = [op |-> "generate_embedding", text |-> text,
                   outcome |-> outcome]
                  @@ GenerateEmbedding(text, outcome, dim)
    /\ UNCHANGED tkVars

GenerateEmbeddingsCall(texts, outcome, dim) ==
    /\ ing_pc = "ready"
    /\ outcome # "answer" => dim = AdaDimension
    /\ ing_pc' = "called"
    /\ ing_ret' = [op |-> "generate_embeddings", texts |-> texts,
                   outcome |-> outcome]
                  @@ GenerateEmbeddings(texts, outcome, dim)
    /\ UNCHANGED tkVars

\* ---- extract_pdf_text(file_source, is_path) ----
\* a PDF has 0..MaxNativePages pages
MaxNativePages == 2

\* the native text must be longer than this to be returned
TextThreshold == 100

\* c repeated k times
RECURSIVE Repeat(_, _)
Repeat(c, k) == IF k = 0 THEN "" ELSE c \o Repeat(c, k - 1)

\* 'page.extract_text() or ""' of a page, as the list of its lines
NativePageTexts ==
    { <<"">>, <<" ">>, <<Repeat("x", 99)>>, <<Repeat("x", 100)>>,
      <<Repeat("x", 101)>>, <<Repeat("x", 49), Repeat("x", 50)>> }

NativeDocs == UNION {[1..n -> NativePageTexts] : n \in 0..MaxNativePages}

\* what _extract_with_ocr does when called: it raises, or it returns the
\* page sections
OcrOutcomes == {"raise", "sections"}

OcrSectionsText == <<"", "--- Page 1 ---", "[No text detected]", "">>

\* "\n".join(pages): the lines of the pages, in order
RECURSIVE JoinPages(_)
JoinPages(pages) ==
    IF pages = <<>> THEN <<>> ELSE Head(pages) \o JoinPages(Tail(pages))

\* len(text) of a text given as its lines: the characters of the lines and
\* one newline between two lines
RECURSIVE CharCount(_, _, _)
CharCount(lines, lo, hi) ==
    IF lo > hi THEN 0
    ELSE IF lo = hi THEN Len(lines[lo])
    ELSE LET mid == (lo + hi) \div 2
         IN  CharCount(lines, lo, mid) + CharCount(lines, mid + 1, hi)

TextLength(lines) ==
    IF lines = <<>> THEN 0
    ELSE CharCount(lines, 1, Len(lines)) + (Len(lines) - 1)

\* extract_pdf_text: [raised, ocr_invoked, text]
ExtractPdfText(pages, ocr) ==
    IF pages = <<>>
    THEN [raised |-> TRUE, ocr_invoked |-> FALSE, text |-> <<>>,
          error |-> "PDF contains no pages"]
    ELSE LET combined_text == JoinPages(pages)
             text_length   == TextLength(combined_text)
         IN  IF ~IsBlankText(combined_text) /\ text_length > TextThreshold
             THEN [raised |-> FALSE, ocr_invoked |-> FALSE,
                   text |-> combined_text, error |-> NoneVal]
             ELSE IF ocr = "raise"
             THEN [raised |-> TRUE, ocr_invoked |-> TRUE, text |-> <<>>,
                   error |-> "Concurrent OCR extraction failed"]
             ELSE [raised |-> FALSE, ocr_invoked |-> TRUE,
                   text |-> OcrSectionsText, error |-> NoneVal]

ExtractPdfTextCall(pages, ocr) ==
    /\ ing_pc = "ready"
    /\ ~ExtractPdfText(pages, ocr).ocr_invoked => ocr = "raise"
    /\ ing_pc' = "called"
    /\ ing_ret' = [op |-> "extract_pdf_text", pages |-> pages,
                   native_length |-> TextLength(JoinPages(pages))]
                  @@ ExtractPdfText(pages, ocr)
    /\ UNCHANGED tkVars

\* ---- DocumentIndexer.index_chunks(chunks, embedding_generator) ----
\* index_chunks is called with at most MaxIndexChunks chunks
MaxIndexChunks == 101

\* batch_size of index_chunks
UploadBatchSize == 50

ChunkCounts == {0, 1, 49, 50, 51, 100, MaxIndexChunks}

\* what upload_documents does with a batch: it raises, or it reports none,
\* all but one, or all of the documents as succeeded
BatchOutcomes == {"raise", "none", "one_failed", "all"}

\* succeeded = sum(1 for r in results if r.succeeded)
SucceededCount(outcome, batch_len) ==
    CASE outcome = "all"        -> batch_len
      [] outcome = "one_failed" -> batch_len - 1
      [] OTHER                  -> 0

\* a variant in which a raising batch ends the loop
ContinueAfterBatchAbort(outcome) == outcome # "raise"

\* 'except Exception: logger.error(...)': the loop goes on to the next batch
ContinueAfterBatch(outcome) == TRUE

\* 'for i in range(0, len(documents), batch_size)' from batch number k on
RECURSIVE UploadLoop(_, _, _, _, _)
UploadLoop(n_documents, outcomes, k, total_indexed, attempted) ==
    LET i == (k - 1) * UploadBatchSize
    IN  IF i >= n_documents
        THEN [indexed_count |-> total_indexed, attempted |-> attempted]
        ELSE LET batch_len == Min(i + UploadBatchSize, n_documents) - i
                 total     == total_indexed
                                  + SucceededCount(outcomes[k], batch_len)
             IN  IF ContinueAfterBatch(outcomes[k])
                 THEN UploadLoop(n_documents, outcomes, k + 1, total,
                                 Append(attempted, i))
                 ELSE [indexed_count |-> total,
                       attempted |-> Append(attempted, i)]

\* index_chunks: n_chunks chunks, n_skipped of them dropped because their
\* embedding failed, outcomes[k] what the upload of batch k does
IndexChunks(n_chunks, is_ready, n_skipped, outcomes) ==
    IF ~is_ready
    THEN [success |-> FALSE, error |-> "Indexer not initialized",
          indexed_count |-> 0, attempted |-> <<>>]
    ELSE IF n_chunks = 0
    THEN [success |-> TRUE, error |-> NoneVal, indexed_count |-> 0,
          attempted |-> <<>>]
    ELSE [success |-> TRUE, error |-> NoneVal, total_chunks |-> n_chunks]
         @@ UploadLoop(n_chunks - n_skipped, outcomes, 1, 0, <<>>)

\* the number of batches of n documents
BatchCount(n) == CeilDiv(n, UploadBatchSize)

IndexChunksCall(n_chunks, is_ready, n_skipped, outcomes) ==
    /\ ing_pc = "ready"
    /\ n_skipped <= n_chunks
    /\ ~is_ready => n_skipped = 0
    /\ Len(outcomes) = (IF is_ready THEN BatchCount(n_chunks - n_skipped)
                        ELSE 0)
    /\ ing_pc' = "called"
    /\ ing_ret' = [op |-> "index_chunks", n_chunks |-> n_chunks,
                   is_ready |-> is_ready, n_skipped |-> n_skipped,
                   outcomes |-> outcomes]
                  @@ IndexChunks(n_chunks, is_ready, n_skipped, outcomes)
    /\ UNCHANGED tkVars

\* ---- process_pdf_task(file_path, document_id, filename, upload_to_index) ----
\* the longest document of the task has MaxTaskLines lines
MaxTaskLines == 545

\* batch_size of process_pdf_task
TaskBatchSize == 10

\* the files handed to the task: the native text of the pages and what OCR
\* does if it is invoked
TaskFiles ==
    { [pages |-> << <<"">> >>, ocr |-> "raise"],
      [pages |-> << <<"">> >>, ocr |-> "sections"],
      [pages |-> << <<Repeat("x", 101)>> >>, ocr |-> "raise"],
      [pages |-> << TextOf(MaxTaskLines, "words") >>, ocr |-> "raise"] }

TaskArgs ==
    [file : TaskFiles, upload_to_index : BOOLEAN, indexer_ready : BOOLEAN]

\* sqlite3.OperationalError of a DocumentDatabase call
DbError == "database is locked"

CallsInit ==
    /\ ing_pc = "ready"
    /\ ing_ret = [op |-> "none"]

CallsIdle ==
    /\ ing_pc = "idle"
    /\ ing_ret = [op |-> "idle"]

\* the document row db.create_document made: status PENDING
NewDocumentRow ==
    [status |-> "pending", error_message |-> NoneVal, total_chunks |-> 0,
     processed_chunks |-> 0, indexed_chunks |-> 0]

TaskInit ==
    /\ tk_pc = "queued"
    /\ tk_args \in TaskArgs
    /\ tk_doc = NewDocumentRow
    /\ tk_chunks = 0
    /\ tk_i = 0
    /\ tk_indexed = 0
    /\ tk_unlinks = 0
    /\ tk_result = [kind |-> "none"]
    /\ tk_runs = 1
    /\ up_pc = "accepted"

TaskIdle ==
    /\ tk_pc = "idle"
    /\ tk_args = [upload_to_index |-> FALSE]
    /\ tk_doc = NewDocumentRow
    /\ tk_chunks = 0
    /\ tk_i = 0
    /\ tk_indexed = 0
    /\ tk_unlinks = 0
    /\ tk_result = [kind |-> "none"]
    /\ tk_runs = 0
    /\ up_pc = "idle"

IngInit ==
    \/ CallsInit /\ TaskIdle
    \/ CallsIdle /\ TaskInit

IngIdle == CallsIdle /\ TaskIdle

\* an exception raised inside the try block: control passes to the handler
RaiseInTask(message) ==
    /\ tk_pc' = "handler"
    /\ tk_result' = [kind |-> "raised", error |-> message]

\* db.update_document_status(document_id, status, error_message)
UpdateDocumentStatus(status, error_message) ==
    tk_doc' = [tk_doc EXCEPT !.status = status,
                             !.error_message = error_message]

\* 'db.update_document_status(document_id, ProcessingStatus.PROCESSING)'
TaskStart(db_ok) ==
    /\ tk_pc = "queued"
    /\ IF db_ok
       THEN /\ UpdateDocumentStatus("processing", NoneVal)
            /\ tk_pc' = "extract"
            /\ UNCHANGED tk_result
       ELSE /\ RaiseInTask(DbError)
            /\ UNCHANGED tk_doc
    /\ UNCHANGED <<ing_pc, ing_ret, tk_runs, up_pc, tk_args, tk_chunks, tk_i, tk_indexed,
                   tk_unlinks>>

\* what opening file_path raises once an earlier run has unlinked it
FileMissingError == "no such file"

\* extract_pdf_text, create_intelligent_chunks_with_ai and
\* db.update_document_progress(total_chunks, processed_chunks); the
\* temporary file is gone once os.unlink has been called on it
TaskExtract(db_ok) ==
    /\ tk_pc = "extract"
    /\ LET r      == ExtractPdfText(tk_args.file.pages, tk_args.file.ocr)
           chunks == CreateIntelligentChunks(r.text, "document")
       IN  IF tk_unlinks >= 1
           THEN /\ RaiseInTask(FileMissingError)
                /\ UNCHANGED <<tk_doc, tk_chunks>>
           ELSE IF r.raised
           THEN /\ RaiseInTask(r.error)
                /\ UNCHANGED <<tk_doc, tk_chunks>>
           ELSE /\ tk_chunks' = Len(chunks)
                /\ IF db_ok
                   THEN /\ tk_doc' = [tk_doc EXCEPT
                                         !.total_chunks = Len(chunks),
                                         !.processed_chunks = Len(chunks)]
                        /\ tk_pc' = IF tk_args.upload_to_index
                                    THEN "indexer" ELSE "complete"
                        /\ UNCHANGED tk_result
                   ELSE /\ RaiseInTask(DbError)
                        /\ UNCHANGED tk_doc
    /\ UNCHANGED <<ing_pc, ing_ret, tk_runs, up_pc, tk_args, tk_i, tk_indexed, tk_unlinks>>

\* 'indexer = DocumentIndexer()' and the is_ready check
TaskCreateIndexer ==
    /\ tk_pc = "indexer"
    /\ IF tk_args.indexer_ready
       THEN tk_pc' = "batch" /\ UNCHANGED tk_result
       ELSE RaiseInTask("Indexer not initialized properly")
    /\ UNCHANGED <<ing_pc, ing_ret, tk_runs, up_pc, tk_args, tk_doc, tk_chunks, tk_i,
                   tk_indexed, tk_unlinks>>

\* one iteration of 'for i in range(0, len(chunks), batch_size)': an
\* exception of db.update_document_progress is caught inside the loop
TaskBatch(outcome, n_skipped, db_ok) ==
    /\ tk_pc = "batch"
    /\ tk_i < tk_chunks
    /\ LET batch_len == Min(tk_i + TaskBatchSize, tk_chunks) - tk_i
           outcomes  == IF batch_len - n_skipped > 0 THEN <<outcome>>
                        ELSE <<>>
           result    == IndexChunks(batch_len, TRUE, n_skipped, outcomes)
       IN  /\ n_skipped <= batch_len
           /\ outcomes = <<>> => outcome = "raise"
           /\ tk_indexed' = tk_indexed + result.indexed_count
           /\ tk_doc' = IF db_ok
                        THEN [tk_doc EXCEPT !.indexed_chunks =
                                 tk_indexed + result.indexed_count]
                        ELSE tk_doc
    /\ tk_i' = tk_i + TaskBatchSize
    /\ UNCHANGED <<ing_pc, ing_ret, tk_runs, up_pc, tk_pc, tk_args, tk_chunks, tk_unlinks,
                   tk_result>>

\* the batch loop is exhausted
TaskBatchesDone ==
    /\ tk_pc = "batch"
    /\ tk_i >= tk_chunks
    /\ tk_pc' = "complete"
    /\ UNCHANGED <<ing_pc, ing_ret, tk_runs, up_pc, tk_args, tk_doc, tk_chunks, tk_i,
                   tk_indexed, tk_unlinks, tk_result>>

\* the status update to COMPLETED, the clean-up of the temporary file and
\* the return of the result
TaskComplete(db_ok) ==
    /\ tk_pc = "complete"
    /\ IF db_ok
       THEN /\ UpdateDocumentStatus("completed", NoneVal)
            /\ tk_unlinks' = tk_unlinks + 1
            /\ tk_result' = [kind |-> "result", success |-> TRUE,
                             total_chunks |-> tk_chunks,
                             indexed_chunks |-> tk_indexed]
            /\ tk_pc' = "returned"
       ELSE /\ RaiseInTask(DbError)
            /\ UNCHANGED <<tk_doc, tk_unlinks>>
    /\ UNCHANGED <<ing_pc, ing_ret, tk_runs, up_pc, tk_args, tk_chunks, tk_i, tk_indexed>>

\* 'except Exception as e': the status update to FAILED with str(e), the
\* clean-up and the return of the result; an exception of the status update
\* leaves the handler and the task
TaskHandler(db_ok) ==
    /\ tk_pc = "handler"
    /\ IF db_ok
       THEN /\ UpdateDocumentStatus("failed", tk_result.error)
            /\ tk_unlinks' = tk_unlinks + 1
            /\ tk_result' = [kind |-> "result", success |-> FALSE,
                             error |-> tk_result.error]
            /\ tk_pc' = "returned"
       ELSE /\ tk_result' = [kind |-> "escaped", error |-> DbError]
            /\ tk_pc' = "propagated"
            /\ UNCHANGED <<tk_doc, tk_unlinks>>
    /\ UNCHANGED <<ing_pc, ing_ret, tk_runs, up_pc, tk_args, tk_chunks, tk_i, tk_indexed>>

\* a worker starts process_pdf_task at most MaxDeliveries times for a row
MaxDeliveries == 2

\* the task message is delivered again (or the task is retried): a worker
\* starts process_pdf_task once more with the same arguments; the row of
\* the document and the file system are as the earlier run left them
TaskRedelivered ==
    /\ tk_pc \in {"returned", "propagated"}
    /\ tk_runs < MaxDeliveries
    /\ tk_runs' = tk_runs + 1
    /\ tk_pc' = "queued"
    /\ tk_chunks' = 0
    /\ tk_i' = 0
    /\ tk_indexed' = 0
    /\ tk_result' = [kind |-> "none"]
    /\ UNCHANGED <<ing_pc, ing_ret, up_pc, tk_args, tk_doc, tk_unlinks>>

(***************************************************************************)
(* The upload endpoint process_pdf (routes.py), from the creation of the   *)
(* document record on: the request has passed the checks that answer 400.  *)
(***************************************************************************)
\* no row of the document exists yet
NoDocumentRow ==
    [status |-> "absent", error_message |-> NoneVal, total_chunks |-> 0,
     processed_chunks |-> 0, indexed_chunks |-> 0]

UploadInit ==
    /\ up_pc = "create"
    /\ tk_pc = "not_started"
    /\ tk_args \in TaskArgs
    /\ tk_doc = NoDocumentRow
    /\ tk_chunks = 0
    /\ tk_i = 0
    /\ tk_indexed = 0
    /\ tk_unlinks = 0
    /\ tk_result = [kind |-> "none"]
    /\ tk_runs = 0

\* 'document = db.create_document(...)': the row is created PENDING, or
\* the endpoint answers 500 'Failed to create document record'
UploadCreateDocument(db_ok) ==
    /\ up_pc = "create"
    /\ IF db_ok
       THEN tk_doc' = NewDocumentRow /\ up_pc' = "save_temp"
       ELSE up_pc' = "error_500" /\ UNCHANGED tk_doc
    /\ UNCHANGED <<ing_pc, ing_ret, tk_pc, tk_args, tk_chunks, tk_i,
                   tk_indexed, tk_unlinks, tk_result, tk_runs>>

\* the write of the temporary file, or 500 'Failed to save temporary file'
UploadSaveTempFile(saved) ==
    /\ up_pc = "save_temp"
    /\ up_pc' = IF saved THEN "start_task" ELSE "error_500"
    /\ UNCHANGED <<ing_pc, ing_ret, tk_pc, tk_args, tk_doc, tk_chunks, tk_i,
                   tk_indexed, tk_unlinks, tk_result, tk_runs>>

\* 'process_pdf_task.delay(...)': the task is queued and the endpoint
\* answers with the document id, or the temporary file is unlinked and the
\* endpoint answers 500 'Failed to start processing task'
UploadStartTask(started) ==
    /\ up_pc = "start_task"
    /\ IF started
       THEN /\ up_pc' = "accepted"
            /\ tk_pc' = "queued"
            /\ tk_runs' = 1
            /\ UNCHANGED tk_unlinks
       ELSE /\ up_pc' = "error_500"
            /\ tk_unlinks' = tk_unlinks + 1
            /\ UNCHANGED <<tk_pc, tk_runs>>
    /\ UNCHANGED <<ing_pc, ing_ret, tk_args, tk_doc, tk_chunks, tk_i,
                   tk_indexed, tk_result>>

(***************************************************************************)
(* DocumentIndexer instances that share local_documents.json. Every        *)
(* process that imports document_indexer.py builds its own instance, and   *)
(* every instance keeps its own self.local_documents, read from the file   *)
(* once, in the constructor. The executions of index_document modelled     *)
(* here are the ones that reach the local store: the instance has no       *)
(* search client, or upload_documents raises. index_document holds no      *)
(* await that suspends between the append and the save, so an execution    *)
(* is one step of its instance.                                            *)
(***************************************************************************)
\* the instances, one per process through get_document_indexer
MaxInstances == 2

Instances == 1..MaxInstances

\* index_document is executed at most MaxStoreCalls times in all
MaxStoreCalls == 2

\* 'document_indexer = None': the instance is not constructed yet
NoIndexer == [constructed |-> FALSE, local_documents |-> <<>>]

StoreInit ==
    /\ st_file = <<>>
    /\ st_indexers = [p \in Instances |-> NoIndexer]
    /\ st_calls = 0
    /\ st_returned = <<>>

StoreIdle ==
    /\ st_file = <<>>
    /\ st_indexers = <<>>
    /\ st_calls = 0
    /\ st_returned = <<>>

\* _load_local_documents: json.load of the file, [] when it does not exist
LoadLocalDocuments == st_file

\* get_document_indexer in a process whose document_indexer is None: the
\* constructor sets self.local_documents = self._load_local_documents()
StoreConstruct(p) ==
    /\ ~st_indexers[p].constructed
    /\ st_indexers' = [st_indexers EXCEPT
                          ![p] = [constructed     |-> TRUE,
                                  local_documents |-> LoadLocalDocuments]]
    /\ UNCHANGED <<st_file, st_calls, st_returned>>

\* index_document on instance p, reaching 'Fallback to local storage':
\* the prepared documents are appended to the instance's list without
\* their embedding, _save_local_documents rewrites the file with that
\* list, True is returned
StoreIndexDocument(p, filename, user_id) ==
    /\ st_indexers[p].constructed
    /\ st_calls < MaxStoreCalls
    /\ st_calls' = st_calls + 1
    /\ LET text      == ExtractedText(filename)
           chunks    == CreateIntelligentChunks(text, filename)
           documents == PrepareDocuments(chunks, filename, user_id,
                                         st_calls + 1)
           local     == [i \in 1..Len(documents) |-> LocalDoc(documents[i])]
       IN  IF IsBlankText(text) \/ chunks = <<>>
           THEN /\ st_returned' = Append(st_returned,
                      [instance |-> p, ret |-> FALSE, documents |-> <<>>])
                /\ UNCHANGED <<st_file, st_indexers>>
           ELSE /\ st_indexers' =
                      [st_indexers EXCEPT ![p].local_documents = @ \o local]
                /\ st_file' = st_indexers'[p].local_documents
                /\ st_returned' = Append(st_returned,
                      [instance |-> p, ret |-> TRUE, documents |-> local])

(***************************************************************************)
(* The specifications.                                                     *)
(***************************************************************************)
InitChunk ==
    \/ DcInit /\ TokIdle /\ OcrIdle /\ IdxIdle /\ IngIdle /\ StoreIdle
    \/ DcFixed /\ TokInit /\ OcrIdle /\ IdxIdle /\ IngIdle /\ StoreIdle

NextChunk ==
    \/ DirectChunkCall /\ UNCHANGED <<tokVars, ocrVars, idxVars, ingVars, stVars>>
    \/ \E file \in Files, filename \in FileNames :
           ProcessPdf(file, filename) /\ UNCHANGED <<dcVars, ocrVars, idxVars, ingVars, stVars>>

SpecChunk == InitChunk /\ [][NextChunk]_vars

InitOcr == OcrInit /\ DcIdle /\ TokIdle /\ IdxIdle /\ IngIdle /\ StoreIdle

NextOcr ==
    \/ OcrStart /\ UNCHANGED <<dcVars, tokVars, idxVars, ingVars, stVars>>
    \/ OcrSubmitBatch /\ UNCHANGED <<dcVars, tokVars, idxVars, ingVars, stVars>>
    \/ \E i \in ocr_pending :
           OcrFutureCompleted(i) /\ UNCHANGED <<dcVars, tokVars, idxVars, ingVars, stVars>>
    \/ OcrBatchDone /\ UNCHANGED <<dcVars, tokVars, idxVars, ingVars, stVars>>
    \/ OcrBatchTimeout /\ UNCHANGED <<dcVars, tokVars, idxVars, ingVars, stVars>>
    \/ OcrFinish /\ UNCHANGED <<dcVars, tokVars, idxVars, ingVars, stVars>>

SpecOcr == InitOcr /\ [][NextOcr]_vars

InitIndex == IdxInit /\ DcIdle /\ TokIdle /\ OcrIdle /\ IngIdle /\ StoreIdle

NextIndex ==
    \/ \E filename \in UploadFiles, user_id \in UserIds \cup {NoneVal},
          raises \in BOOLEAN, succeeded \in {{}, {1}, {1, 2}} :
           IndexDocument(filename, user_id, raises, succeeded)
               /\ UNCHANGED <<dcVars, tokVars, ocrVars, ingVars, stVars>>
    \/ \E query \in Queries, top \in Tops,
          user_id \in UserIds \cup {NoneVal},
          filename_filter \in {"b.pdf", NoneVal},
          remote \in RemoteOutcomes :
           SearchDocumentsCall(query, top, user_id, filename_filter, remote)
               /\ UNCHANGED <<dcVars, tokVars, ocrVars, ingVars, stVars>>
    \/ \E query \in Queries,
          filename \in {"user_uploaded", "a.pdf", NoneVal},
          user_id \in UserIds \cup {NoneVal, ""},
          remote \in RemoteOutcomes :
           AnalyzePdf(query, filename, user_id, remote)
               /\ UNCHANGED <<dcVars, tokVars, ocrVars, ingVars, stVars>>

SpecIndex == InitIndex /\ [][NextIndex]_vars

InitIngest == IngInit /\ DcIdle /\ TokIdle /\ OcrIdle /\ IdxIdle /\ StoreIdle

NextIngest ==
    \/ \E text \in EmbeddingTexts, outcome \in EmbeddingOutcomes,
          dim \in {AdaDimension, EMBEDDING_DIM} :
           GenerateEmbeddingCall(text, outcome, dim)
               /\ UNCHANGED <<dcVars, tokVars, ocrVars, idxVars, stVars>>
    \/ \E texts \in {<<>>, <<"">>, <<"alpha", "gamma">>},
          outcome \in EmbeddingOutcomes,
          dim \in {AdaDimension, EMBEDDING_DIM} :
           GenerateEmbeddingsCall(texts, outcome, dim)
               /\ UNCHANGED <<dcVars, tokVars, ocrVars, idxVars, stVars>>
    \/ \E pages \in NativeDocs, ocr \in OcrOutcomes :
           ExtractPdfTextCall(pages, ocr)
               /\ UNCHANGED <<dcVars, tokVars, ocrVars, idxVars, stVars>>
    \/ \E n_chunks \in ChunkCounts, is_ready \in BOOLEAN,
          n_skipped \in {0, 1},
          outcomes \in UNION {[1..k -> BatchOutcomes] :
                                 k \in 0..BatchCount(MaxIndexChunks)} :
           IndexChunksCall(n_chunks, is_ready, n_skipped, outcomes)
               /\ UNCHANGED <<dcVars, tokVars, ocrVars, idxVars, stVars>>
    \/ \E db_ok \in BOOLEAN :
           TaskStart(db_ok) /\ UNCHANGED <<dcVars, tokVars, ocrVars, idxVars, stVars>>
    \/ \E db_ok \in BOOLEAN :
           TaskExtract(db_ok) /\ UNCHANGED <<dcVars, tokVars, ocrVars, idxVars, stVars>>
    \/ TaskCreateIndexer /\ UNCHANGED <<dcVars, tokVars, ocrVars, idxVars, stVars>>
    \/ \E outcome \in BatchOutcomes, n_skipped \in {0, 1}, db_ok \in BOOLEAN :
           TaskBatch(outcome, n_skipped, db_ok)
               /\ UNCHANGED <<dcVars, tokVars, ocrVars, idxVars, stVars>>
    \/ TaskBatchesDone /\ UNCHANGED <<dcVars, tokVars, ocrVars, idxVars, stVars>>
    \/ \E db_ok \in BOOLEAN :
           TaskComplete(db_ok) /\ UNCHANGED <<dcVars, tokVars, ocrVars, idxVars, stVars>>
    \/ \E db_ok \in BOOLEAN :
           TaskHandler(db_ok) /\ UNCHANGED <<dcVars, tokVars, ocrVars, idxVars, stVars>>
    \/ TaskRedelivered /\ UNCHANGED <<dcVars, tokVars, ocrVars, idxVars, stVars>>

SpecIngest == InitIngest /\ [][NextIngest]_vars

InitUpload ==
    UploadInit /\ CallsIdle /\ DcIdle /\ TokIdle /\ OcrIdle /\ IdxIdle
        /\ StoreIdle

NextUpload ==
    \/ \E db_ok \in BOOLEAN :
           UploadCreateDocument(db_ok)
               /\ UNCHANGED <<dcVars, tokVars, ocrVars, idxVars, stVars>>
    \/ \E saved \in BOOLEAN :
           UploadSaveTempFile(saved)
               /\ UNCHANGED <<dcVars, tokVars, ocrVars, idxVars, stVars>>
    \/ \E started \in BOOLEAN :
           UploadStartTask(started)
               /\ UNCHANGED <<dcVars, tokVars, ocrVars, idxVars, stVars>>
    \/ \E db_ok \in BOOLEAN :
           TaskStart(db_ok) /\ UNCHANGED <<dcVars, tokVars, ocrVars, idxVars, stVars>>
    \/ \E db_ok \in BOOLEAN :
           TaskExtract(db_ok) /\ UNCHANGED <<dcVars, tokVars, ocrVars, idxVars, stVars>>
    \/ TaskCreateIndexer /\ UNCHANGED <<dcVars, tokVars, ocrVars, idxVars, stVars>>
    \/ \E outcome \in BatchOutcomes, n_skipped \in {0, 1}, db_ok \in BOOLEAN :
           TaskBatch(outcome, n_skipped, db_ok)
               /\ UNCHANGED <<dcVars, tokVars, ocrVars, idxVars, stVars>>
    \/ TaskBatchesDone /\ UNCHANGED <<dcVars, tokVars, ocrVars, idxVars, stVars>>
    \/ \E db_ok \in BOOLEAN :
           TaskComplete(db_ok) /\ UNCHANGED <<dcVars, tokVars, ocrVars, idxVars, stVars>>
    \/ \E db_ok \in BOOLEAN :
           TaskHandler(db_ok) /\ UNCHANGED <<dcVars, tokVars, ocrVars, idxVars, stVars>>

\* the endpoint runs to its response and a worker runs every queued task
\* to its end: each enabled step is eventually taken
SpecUpload == InitUpload /\ [][NextUpload]_vars /\ WF_vars(NextUpload)

InitStore == StoreInit /\ DcIdle /\ TokIdle /\ OcrIdle /\ IdxIdle /\ IngIdle

NextStore ==
    \/ \E p \in Instances :
           StoreConstruct(p)
               /\ UNCHANGED <<dcVars, tokVars, ocrVars, idxVars, ingVars>>
    \/ \E p \in Instances, filename \in UploadFiles,
          user_id \in {"u1", NoneVal} :
           StoreIndexDocument(p, filename, user_id)
               /\ UNCHANGED <<dcVars, tokVars, ocrVars, idxVars, ingVars>>

SpecStore == InitStore /\ [][NextStore]_vars

(***************************************************************************)
(* Properties of the chunkers, checked under SpecChunk.                    *)
(***************************************************************************)
\* C6: every chunk direct_chunk returns for a text of N lines has
\* 1 <= start_line <= end_line <= N and end_line - start_line <
\* lines_per_chunk; every chunk _create_token_chunks builds has
\* line_start <= line_end and char_start <= char_end.
C6_ChunkRangesOrdered ==
    /\ dc_pc = "returned" =>
         \A k \in 1..Len(dc_chunks) :
            /\ 1 <= dc_chunks[k].start_line
            /\ dc_chunks[k].start_line <= dc_chunks[k].end_line
            /\ dc_chunks[k].end_line <= Len(dc_text)
            /\ dc_chunks[k].end_line - dc_chunks[k].start_line
                   < LinesPerChunk(dc_chunk_size)
    /\ \A k \in 1..Len(tok_created) :
            /\ tok_created[k].line_start <= tok_created[k].line_end
            /\ tok_created[k].char_start <= tok_created[k].char_end
    /\ \A k \in 1..Len(pdf_tokens) :
            /\ pdf_tokens[k].line_start <= pdf_tokens[k].line_end
            /\ pdf_tokens[k].char_start <= pdf_tokens[k].char_end

\* direct_chunk returned several chunks, the last one a partial window,
\* and the token processor stored a chunk spanning more than one line
C6_Witness ==
    /\ dc_pc = "returned"
    /\ Len(dc_chunks) >= 3
    /\ dc_chunks[Len(dc_chunks)].end_line = Len(dc_text)
    /\ dc_chunks[Len(dc_chunks)].end_line
           - dc_chunks[Len(dc_chunks)].start_line + 1
         < LinesPerChunk(dc_chunk_size)
    /\ \E k \in 1..Len(pdf_tokens) :
           /\ pdf_tokens[k].line_start < pdf_tokens[k].line_end
           /\ pdf_tokens[k].char_start < pdf_tokens[k].char_end

WindowLayout(chunks, N, chunk_size) ==
    LET L == LinesPerChunk(chunk_size)
        O == L \div 10
    IN  /\ Len(chunks) = CeilDiv(N, L - O)
        /\ \A k \in 1..Len(chunks) :
              /\ chunks[k].start_line = (k - 1) * (L - O) + 1
              /\ chunks[k].end_line = Min((k - 1) * (L - O) + L, N)
        /\ chunks[Len(chunks)].end_line = N

\* N = 120, L = 50: lines 1-50, 46-95 and 91-120
ScenarioLayout(chunks) ==
    /\ Len(chunks) = 3
    /\ <<chunks[1].start_line, chunks[1].end_line>> = <<1, 50>>
    /\ <<chunks[2].start_line, chunks[2].end_line>> = <<46, 95>>
    /\ <<chunks[3].start_line, chunks[3].end_line>> = <<91, 120>>

\* C8 as stated: for every text of N lines direct_chunk returns exactly
\* ceil(N / (L - O)) chunks, chunk k spanning lines (k-1)(L-O)+1 through
\* min((k-1)(L-O)+L, N), the last one ending at line N.
C8_LayoutEveryText ==
    (dc_pc = "returned" /\ LinesPerChunk(dc_chunk_size) >= 1) =>
        WindowLayout(dc_chunks, Len(dc_text), dc_chunk_size)

\* C8 amended: the layout holds for every text of N lines that is not
\* wholly whitespace (a whitespace-only text yields no chunk at all); for
\* N = 120 and L = 50 it gives the chunks 1-50, 46-95 and 91-120.
C8_LayoutNonBlankText ==
    (dc_pc = "returned" /\ LinesPerChunk(dc_chunk_size) >= 1
                        /\ ~IsBlankText(dc_text)) =>
        /\ WindowLayout(dc_chunks, Len(dc_text), dc_chunk_size)
        /\ (Len(dc_text) = 120 /\ LinesPerChunk(dc_chunk_size) = 50)
               => ScenarioLayout(dc_chunks)

\* the 120-line scenario has been chunked with 50 lines per chunk
C8_Witness ==
    /\ dc_pc = "returned"
    /\ ~IsBlankText(dc_text)
    /\ Len(dc_text) = 120
    /\ LinesPerChunk(dc_chunk_size) = 50
    /\ Len(dc_chunks) = 3

(***************************************************************************)
(* Properties of the OCR adapter, checked under SpecOcr.                   *)
(***************************************************************************)
\* the page numbers of the sections of the returned text, in order
SectionPages(text) == [k \in 1..Len(text) |-> text[k].page]

\* C5: the text _extract_with_ocr returns for an N-page document is the
\* sequence of the page sections in source order 1..N, each page
\* contributing its section once, whatever the completion order.
C5_PageOrderMatchesSource ==
    ocr_pc = "returned" =>
        SectionPages(ocr_all_text) = [k \in 1..Len(ocr_pages) |-> k]

\* C10: every chunk stored by TokenizedPDFProcessor has token_count <=
\* max_tokens_per_chunk, for every accepted configuration.
C10_TokenCountWithinMax ==
    \A k \in 1..Len(pdf_tokens) :
        pdf_tokens[k].token_count <= tok_cfg.max_tokens_per_chunk

(***************************************************************************)
(* Properties of the indexer, checked under SpecIndex.                     *)
(***************************************************************************)
\* the documents held by either store
StoredDocuments ==
    {remote_index[i] : i \in 1..Len(remote_index)}
        \cup {local_documents[i] : i \in 1..Len(local_documents)}

\* the owner stored with the chunk of a result row
StoredOwners(chunk_id) ==
    {doc.user_id : doc \in {d \in StoredDocuments : d.chunk_id = chunk_id}}

\* the document a chunk belongs to: the stem and the call that indexed it
DocumentOf(chunk_id) == <<chunk_id[1], chunk_id[3]>>

\* the store that served the search in idx_ret
ServingStore ==
    IF idx_ret.backend = "remote" THEN remote_index ELSE local_documents

\* C1: a guarded search of analyze_pdf whose token carries no owner id
\* (None or empty) returns an empty result list on the remote and on the
\* local backend; it never returns chunks of any owner.
C1_GuardedWithoutOwnerIsEmpty ==
    (/\ idx_ret.op = "search"
     /\ idx_ret.mode = "guarded"
     /\ ~Truthy(idx_ret.token_user))
        => idx_ret.results = <<>>

\* C2: after any sequence of index_document calls, a search with
\* user_id = U returns only chunks whose stored owner is U, whichever
\* backend serves it; when U owns exactly one stored document, every
\* returned chunk belongs to that document.
C2_GuardedSearchReturnsOwnChunks ==
    (/\ idx_ret.op = "search"
     /\ Truthy(idx_ret.user_id))
        => LET U    == idx_ret.user_id
               rows == idx_ret.results
               own  == {DocumentOf(d.chunk_id) :
                            d \in {x \in StoredDocuments : x.user_id = U}}
           IN  /\ \A k \in 1..Len(rows) : StoredOwners(rows[k].chunk_id) = {U}
               /\ Cardinality(own) = 1
                    => \A k \in 1..Len(rows) : DocumentOf(rows[k].chunk_id) \in own

\* C2 happens: a search for an owner returned a chunk while the store that
\* served it also held a matching chunk of another owner
C2_Witness ==
    /\ idx_ret.op = "search"
    /\ Truthy(idx_ret.user_id)
    /\ idx_ret.filename_filter = NoneVal
    /\ idx_ret.results # <<>>
    /\ \E i \in 1..Len(ServingStore) :
           /\ ServingStore[i].user_id # idx_ret.user_id
           /\ MatchesQuery(idx_ret.query, ServingStore[i])

\* C3: when the remote upload raises during index_document, every prepared
\* chunk record is appended to the local store and index_document
\* returns True.
C3_UploadFailureFallsBackToLocal ==
    (/\ idx_ret.op = "index"
     /\ idx_ret.upload = "raised")
        => LET documents == idx_ret.documents
               n         == Len(documents)
               m         == Len(local_documents)
           IN  /\ idx_ret.ret = TRUE
               /\ m >= n
               /\ \A i \in 1..n :
                      /\ local_documents[m - n + i].chunk_id
                             = documents[i].chunk_id
                      /\ local_documents[m - n + i].chunk = documents[i].chunk
                      /\ local_documents[m - n + i].user_id
                             = documents[i].user_id
               /\ local_file = local_documents

\* C3 happens: the upload of a two-chunk document raised
C3_Witness ==
    /\ idx_ret.op = "index"
    /\ idx_ret.upload = "raised"
    /\ Len(idx_ret.documents) = 2
    /\ Len(local_documents) >= 2

\* the indexes of the local documents a search with these arguments selects
LocalSelection(query, user_id, filename_filter) ==
    {i \in 1..Len(local_documents) :
        /\ Truthy(user_id) => local_documents[i].user_id = user_id
        /\ Truthy(filename_filter)
               => local_documents[i].filename = filename_filter
        /\ MatchesQuery(query, local_documents[i])}

\* the k-th smallest element of a set of numbers
KthOf(S, k) == CHOOSE i \in S : Cardinality({j \in S : j < i}) = k - 1

\* C4: with a search client configured the remote backend is attempted
\* first; when the remote call raises, the same query with the same owner
\* and filename filters is answered from the local store and nothing is
\* raised to the caller.
C4_SearchFallsBackToLocal ==
    (/\ idx_ret.op = "search"
     /\ search_client)
        => /\ idx_ret.remote \in {"served", "raised"}
           /\ idx_ret.remote = "raised"
                => LET sel  == LocalSelection(idx_ret.query, idx_ret.user_id,
                                              idx_ret.filename_filter)
                       rows == idx_ret.results
                   IN  /\ idx_ret.raised = FALSE
                       /\ idx_ret.backend = "local"
                       /\ Len(rows) = Min(idx_ret.top, Cardinality(sel))
                       /\ \A k \in 1..Len(rows) :
                              rows[k].chunk_id
                                  = local_documents[KthOf(sel, k)].chunk_id

\* C4 happens: the remote call raised and the local store answered with a
\* chunk while the remote index held documents of its own
C4_Witness ==
    /\ idx_ret.op = "search"
    /\ search_client
    /\ idx_ret.remote = "raised"
    /\ idx_ret.results # <<>>
    /\ remote_index # <<>>

(***************************************************************************)
(* Properties of the ingestion pipeline, checked under SpecIngest (C13     *)
(* under SpecOcr).                                                         *)
(***************************************************************************)
\* C11: whenever the remote embedding call fails, or there is no client,
\* the generator returns a vector of exactly the target dimension (1536 in
\* generate_embedding, 3072 in generate_embeddings) for every text, the
\* empty one included, and it does not raise.
C11_FallbackEmbeddingHasTargetDimension ==
    (/\ ing_ret.op \in {"generate_embedding", "generate_embeddings"}
     /\ ing_ret.outcome # "answer")
        => /\ ing_ret.raised = FALSE
           /\ ing_ret.fallback = TRUE
           /\ ing_ret.op = "generate_embedding"
                  => Len(ing_ret.embedding) = 1536
           /\ ing_ret.op = "generate_embeddings"
                  => Len(ing_ret.embedding) = 3072

\* C11 happens: generate_embedding fell back for the empty text with no
\* client
C11_Witness ==
    /\ ing_ret.op = "generate_embedding"
    /\ ing_ret.text = ""
    /\ ing_ret.outcome = "no_client"
    /\ ing_ret.fallback
    /\ Len(ing_ret.embedding) = 1536

\* C12: extract_pdf_text returns the native text without invoking OCR
\* whenever the combined native text has at least 100 characters, and
\* invokes OCR only when the native text is empty or shorter than 100.
C12_NativeTextAtThresholdSkipsOcr ==
    (/\ ing_ret.op = "extract_pdf_text"
     /\ ing_ret.pages # <<>>)
        => /\ ing_ret.native_length >= 100
                => /\ ~ing_ret.ocr_invoked
                   /\ ~ing_ret.raised
                   /\ ing_ret.text = JoinPages(ing_ret.pages)
           /\ ing_ret.ocr_invoked => ing_ret.native_length < 100

\* C13: when OCR recognizes no text on any page of a document,
\* _extract_with_ocr fails.
C13_OcrWithoutTextFails ==
    (/\ ocr_pc \in {"returned", "raised"}
     /\ ocr_available
     /\ Len(ocr_pages) >= 1
     /\ \A i \in 1..Len(ocr_pages) : ocr_pages[i] = "none")
        => ocr_pc = "raised"

\* C14: a task that requests indexing ends COMPLETED if and only if at
\* least one of its chunks was written to the index; with zero chunks
\* indexed it ends FAILED.
C14_CompletedIffChunkIndexed ==
    (/\ tk_pc = "returned"
     /\ tk_args.upload_to_index)
        => /\ tk_doc.status = "completed" <=> tk_indexed >= 1
           /\ tk_indexed = 0 => tk_doc.status = "failed"

\* C15: on every path through process_pdf_task the document ends in
\* COMPLETED, or in FAILED with the error message, the deletion of the
\* temporary file has been attempted, and the task returns a result
\* instead of letting the exception escape.
C15_TaskEndsTerminalAndCleansUp ==
    tk_pc \in {"returned", "propagated"}
        => /\ tk_doc.status \in {"completed", "failed"}
           /\ tk_doc.status = "failed" => Truthy(tk_doc.error_message)
           /\ tk_unlinks >= 1
           /\ tk_result.kind = "result"

\* what batch k of n documents reports as succeeded
RECURSIVE ReportedUpTo(_, _, _)
ReportedUpTo(outcomes, n, k) ==
    IF k = 0 THEN 0
    ELSE LET len == IF 50 * k <= n THEN 50 ELSE n - 50 * (k - 1)
         IN  ReportedUpTo(outcomes, n, k - 1)
                 + (CASE outcomes[k] = "all"        -> len
                      [] outcomes[k] = "one_failed" -> len - 1
                      [] OTHER                      -> 0)

\* C16: in index_chunks a batch that raises or reports partial failure
\* does not keep any later batch from being attempted; indexed_count is
\* the sum of the documents reported succeeded over the batches that
\* returned and never exceeds the number of chunks passed in. The batch
\* loop of process_pdf_task likewise runs over every batch.
C16_LaterBatchesStillAttempted ==
    /\ (/\ ing_ret.op = "index_chunks"
        /\ ing_ret.is_ready
        /\ ing_ret.n_chunks > 0)
           => LET n      == ing_ret.n_chunks - ing_ret.n_skipped
                  starts == {i \in 0..(n - 1) : i % 50 = 0}
              IN  /\ Len(ing_ret.attempted) = Cardinality(starts)
                  /\ {ing_ret.attempted[k] :
                          k \in 1..Len(ing_ret.attempted)} = starts
                  /\ ing_ret.indexed_count
                         = ReportedUpTo(ing_ret.outcomes, n,
                                        Len(ing_ret.outcomes))
                  /\ ing_ret.indexed_count <= ing_ret.n_chunks
    /\ (tk_pc \in {"complete", "returned"} /\ tk_doc.status = "completed"
            /\ tk_args.upload_to_index)
           => /\ tk_i >= tk_chunks
              /\ tk_indexed <= tk_chunks

\* C16 happens: of three batches the first raised, the second reported one
\* failure and the third succeeded
C16_Witness ==
    /\ ing_ret.op = "index_chunks"
    /\ ing_ret.n_chunks = MaxIndexChunks
    /\ ing_ret.n_skipped = 0
    /\ ing_ret.outcomes = <<"raise", "one_failed", "all">>
    /\ ing_ret.attempted = <<0, 50, 100>>
    /\ ing_ret.indexed_count = 49 + (MaxIndexChunks - 100)

(***************************************************************************)
(* Properties of the token processor's numbering and identifiers, checked  *)
(* under SpecChunk.                                                        *)
(***************************************************************************)
\* C17: across the pages of one document processed by process_pdf the
\* line numbers of _extract_text_with_positions are global: they increase
\* in page order, continue across page boundaries, and no line number is
\* given to lines of two different pages.
C17_LineNumbersGlobalAcrossPages ==
    \A p, q \in 1..Len(tok_text_data) :
        p < q =>
            \A i \in 1..Len(tok_text_data[p].lines) :
                \A j \in 1..Len(tok_text_data[q].lines) :
                    tok_text_data[p].lines[i].line_number
                        < tok_text_data[q].lines[j].line_number

\* C20: chunk identifiers are unique over the stored chunks of all
\* documents: no chunk generated for one document carries the identifier
\* of a chunk stored for another, and process_pdf never fails because a
\* generated identifier is already stored.
C20_TokenIdsUniqueAcrossDocuments ==
    /\ \A k \in 1..Len(tok_created) :
           \A j \in 1..Len(pdf_tokens) :
               tok_created[k].token_id = pdf_tokens[j].token_id
                   => pdf_tokens[j].doc_id = tok_ret.doc_id
    /\ tok_ret.status = "error" => tok_ret.message # UniqueTokenIdError

(***************************************************************************)
(* Properties of unguarded and document-targeted searches, checked under   *)
(* SpecIndex.                                                              *)
(***************************************************************************)
\* the documents of the store that served the search in idx_ret which hold
\* a chunk matching its query
MatchingDocuments ==
    {DocumentOf(ServingStore[i].chunk_id) :
        i \in {j \in 1..Len(ServingStore) :
                  MatchesQuery(idx_ret.query, ServingStore[j])}}

\* the documents the result rows in idx_ret come from
ResultDocuments ==
    {DocumentOf(idx_ret.results[k].chunk_id) : k \in 1..Len(idx_ret.results)}

\* a search without owner and without filename filter that was answered
UnguardedAnswered ==
    /\ idx_ret.op = "search"
    /\ ~Truthy(idx_ret.user_id)
    /\ ~Truthy(idx_ret.filename_filter)
    /\ ~idx_ret.raised

\* the limit top is no smaller than what the serving backend may rank: the
\* chunks matching the query in the local store, every chunk of the remote
\* index
WithinTop ==
    IF idx_ret.backend = "remote"
    THEN Len(remote_index) <= idx_ret.top
    ELSE Cardinality(LocalSelection(idx_ret.query, NoneVal, NoneVal))
             <= idx_ret.top

\* C18 as stated: an unguarded search with limit top over a store in which
\* two indexed documents both hold chunks matching the query returns
\* chunks of both documents.
C18_UnguardedReturnsBothDocuments ==
    UnguardedAnswered
        => \A D1, D2 \in MatchingDocuments :
               D1 # D2 => {D1, D2} \subseteq ResultDocuments

\* C18, amended: the same, provided the limit top is at least the number
\* of chunks the serving backend ranks for the query.
C18_UnguardedReturnsBothWithinTop ==
    (UnguardedAnswered /\ WithinTop)
        => \A D1, D2 \in MatchingDocuments :
               D1 # D2 => {D1, D2} \subseteq ResultDocuments

\* C18 happens: an unguarded search answered from the local store returned
\* chunks of two documents of different owners
C18_Witness ==
    /\ UnguardedAnswered
    /\ WithinTop
    /\ idx_ret.backend = "local"
    /\ Cardinality(ResultDocuments) >= 2
    /\ \E i, j \in 1..Len(local_documents) :
           /\ local_documents[i].user_id # local_documents[j].user_id
           /\ {DocumentOf(local_documents[i].chunk_id),
               DocumentOf(local_documents[j].chunk_id)}
                  \subseteq ResultDocuments

\* C19: every result row of search_in_pdf(query, filename, ...) has its
\* filename field equal to the requested filename, after any sequence of
\* ingestions and whichever backend serves the query.
C19_SearchInPdfRowsCarryFilename ==
    (/\ idx_ret.op = "search"
     /\ idx_ret.mode = "specific"
     /\ ~idx_ret.raised)
        => \A k \in 1..Len(idx_ret.results) :
               idx_ret.results[k].filename = idx_ret.filename_filter

(***************************************************************************)
(* New material in every chunk, checked under SpecChunk.                   *)
(***************************************************************************)
\* the offset in the page's token list just past the window of a chunk
TokenWindowEnd(chunk) ==
    chunk.chunk_index * (tok_cfg.token_chunk_size - tok_cfg.token_overlap)
        + chunk.token_count

\* C30: every chunk after the first holds new material: in direct_chunk a
\* line, in _create_token_chunks a token of the page, that its predecessor
\* does not hold; no chunk lies inside the overlap of its predecessor.
C30_EveryChunkHasNewMaterial ==
    /\ dc_pc = "returned" =>
           \A k \in 1..(Len(dc_chunks) - 1) :
               dc_chunks[k + 1].end_line > dc_chunks[k].end_line
    /\ \A k \in 1..(Len(tok_created) - 1) :
           tok_created[k + 1].page_number = tok_created[k].page_number
               => TokenWindowEnd(tok_created[k + 1])
                      > TokenWindowEnd(tok_created[k])

(***************************************************************************)
(* The two backends behind search_documents, checked under SpecIndex.      *)
(***************************************************************************)
\* C26: for the same stored chunk search_documents returns the filename,
\* start_line, end_line, chunk_index and total_chunks recorded at
\* ingestion, whether the remote backend or the local store serves it.
C26_RowsCarryIngestedMetadata ==
    (idx_ret.op = "search" /\ ~idx_ret.raised)
        => \A k \in 1..Len(idx_ret.results) :
               \A doc \in StoredDocuments :
                   doc.chunk_id = idx_ret.results[k].chunk_id
                       => LET row == idx_ret.results[k]
                          IN  /\ row.filename = doc.filename
                              /\ row.start_line = doc.start_line
                              /\ row.end_line = doc.end_line
                              /\ row.chunk_index = doc.chunk_index
                              /\ row.total_chunks = doc.total_chunks

\* the fields of a response whose values are computed from the request and
\* from the fields of the stored chunks alone
RequestAndChunkFields ==
    {"query", "filename", "search_mode", "results", "total_results",
     "message", "title", "content", "chunk_id", "start_line", "end_line",
     "chunk_index", "total_chunks", "line_reference"}

\* the fields of what the caller of the search in idx_ret receives: the
\* row list of search_documents, or the body of analyze_pdf and its rows
ResponseFields ==
    LET rows == IF idx_ret.mode = "direct" THEN idx_ret.results
                ELSE idx_ret.response.results
    IN  (IF idx_ret.mode = "direct" THEN {} ELSE DOMAIN idx_ret.response)
            \cup UNION {DOMAIN rows[k] : k \in 1..Len(rows)}

\* C21: whenever a search is served by the local keyword-only store, the
\* response given to the caller carries an indication of degraded search
\* that a response served by the remote backend does not carry.
C21_LocalResponseSignalsDegraded ==
    (/\ idx_ret.op = "search"
     /\ ~idx_ret.raised
     /\ idx_ret.backend = "local")
        => ResponseFields \ RequestAndChunkFields # {}

\* the query text occurs in the chunk
QueryInChunk(query, doc) ==
    \E i \in 1..Len(doc.chunk) : LowerWord(doc.chunk[i]) = LowerWord(query)

\* C25: after index_document returned True for a document, every later
\* search whose query text occurs in one of its chunks and whose owner and
\* filename scope admits it returns at least one chunk of that document,
\* whichever backend took the write and whichever serves the query.
C25_IndexedDocumentIsFound ==
    (idx_ret.op = "search" /\ ~idx_ret.raised)
        => \A doc \in StoredDocuments :
               (/\ QueryInChunk(idx_ret.query, doc)
                /\ Truthy(idx_ret.user_id) => doc.user_id = idx_ret.user_id
                /\ Truthy(idx_ret.filename_filter)
                       => doc.filename = idx_ret.filename_filter)
                   => \E k \in 1..Len(idx_ret.results) :
                          DocumentOf(idx_ret.results[k].chunk_id)
                              = DocumentOf(doc.chunk_id)

(***************************************************************************)
(* Deduplication by file hash in process_pdf, checked under SpecChunk.     *)
(***************************************************************************)
\* the rows of pdf_documents recorded for a file hash
RecordedFor(docs, file_hash) ==
    {i \in 1..Len(docs) : docs[i].file_hash = file_hash}

\* C22: process_pdf called on a file whose hash is already recorded
\* answers 'exists' with the recorded doc_id and leaves pdf_documents and
\* pdf_tokens unchanged; after any sequence of calls there is at most one
\* document row per file hash.
C22_RecordedHashLeavesTablesUnchanged ==
    [][tok_calls' = tok_calls + 1
          => /\ RecordedFor(pdf_documents,
                            tok_returns'[Len(tok_returns')].file_hash) # {}
                 => /\ tok_ret'.status = "exists"
                    /\ \E i \in RecordedFor(pdf_documents,
                              tok_returns'[Len(tok_returns')].file_hash) :
                           tok_ret'.doc_id = pdf_documents[i].id
                    /\ pdf_documents' = pdf_documents
                    /\ pdf_tokens' = pdf_tokens
             /\ \A i, j \in 1..Len(pdf_documents') :
                    i # j => pdf_documents'[i].file_hash
                                 # pdf_documents'[j].file_hash]_vars

\* C22 happens: a second call for a recorded file answered 'exists' and
\* the one document row with its chunks is what the tables hold
C22_Witness ==
    /\ tok_ret.status = "exists"
    /\ Len(tok_returns) = 2
    /\ tok_returns[1].file_hash = tok_returns[2].file_hash
    /\ tok_returns[1].status = "success"
    /\ Len(pdf_documents) = 1
    /\ pdf_documents[1].id = tok_ret.doc_id
    /\ Len(pdf_tokens) >= 1

\* C28: whenever process_pdf answers 'exists' for a file, an earlier call
\* for the same file hash returned 'success'; a call that failed part-way
\* is not later reported as an already processed document.
C28_ExistsOnlyAfterSuccess ==
    tok_ret.status = "exists"
        => \E k \in 1..(Len(tok_returns) - 1) :
               /\ tok_returns[k].file_hash
                      = tok_returns[Len(tok_returns)].file_hash
               /\ tok_returns[k].status = "success"

(***************************************************************************)
(* The status of a document over task runs (SpecIngest) and from the       *)
(* upload on (SpecUpload).                                                 *)
(***************************************************************************)
\* pending before processing before completed and failed
StatusRank(status) ==
    CASE status = "pending"    -> 0
      [] status = "processing" -> 1
      [] OTHER                 -> 2

\* C23: the processing status of a document only moves forward, pending
\* to processing to completed or failed, and once it is completed or
\* failed no later operation changes it, also when process_pdf_task runs
\* again for the same document id.
C23_StatusOnlyMovesForward ==
    [][tk_doc'.status # tk_doc.status
          => /\ tk_doc.status \notin {"completed", "failed"}
             /\ StatusRank(tk_doc'.status) > StatusRank(tk_doc.status)]_vars

\* C29: every document record the upload endpoint creates eventually
\* reaches status completed or failed; none stays pending forever.
C29_RecordReachesTerminalStatus ==
    (tk_doc.status = "pending") ~> (tk_doc.status \in {"completed", "failed"})

(***************************************************************************)
(* Timeouts of the page recognition, checked under SpecOcr.                *)
(***************************************************************************)
\* C24: when the recognition of a page does not finish in time,
\* _extract_with_ocr still returns text in which that page's section holds
\* the [Timeout Error] placeholder and the section of every other page
\* holds that page's own recognition result.
C24_TimeoutKeepsOtherPages ==
    ocr_pc = "returned"
        => \A k \in 1..Len(ocr_all_text) :
               LET section == ocr_all_text[k]
               IN  \/ section.body = "[Timeout Error]"
                   \/ section = ProcessPage(section.page - 1,
                                            ocr_pages[section.page])

(***************************************************************************)
(* Concurrent writers of the local store, checked under SpecStore.         *)
(***************************************************************************)
\* C27: whatever the interleaving of the index_document executions that
\* fall back to the local store, on one instance or on several instances
\* sharing the file, the file holds every chunk record of every execution
\* that returned True.
C27_FileHoldsEveryReturnedRecord ==
    \A k \in 1..Len(st_returned) :
        st_returned[k].ret
            => \A i \in 1..Len(st_returned[k].documents) :
                   \E j \in 1..Len(st_file) :
                       st_file[j] = st_returned[k].documents[i]

====
